---- MODULE Spec2Model ----
(***************************************************************************)
(* A model of the uplift session-coordination core: the Session state      *)
(* machine (internal/session/session.go), the session Manager              *)
(* (internal/session/manager.go), the websocket Hub's membership table and *)
(* the MessageHandler that ties them together.                             *)
(*                                                                         *)
(* Identifiers produced by generateID are modelled as naturals, each one   *)
(* new; Spec hands them out in increasing order, so a participant that     *)
(* joined later sorts after one that joined earlier.  The order in which   *)
(* Go visits the roster map is arbitrary.  The empty string "" is modelled *)
(* as 0.  Strings compared or normalised by the code (join codes) are      *)
(* sequences of one-character strings.                                     *)
(***************************************************************************)
EXTENDS Integers, Sequences, FiniteSets, TLC

VARIABLES
    heap,           \* session id -> Session object, or Collected once freed
    sessions,       \* Manager.sessions: the ids in the id index
    sessionsByCode, \* Manager.sessionsByCode: normalized code -> session id
    usedIds,        \* participant ids generateID has returned so far
    clients,        \* Client objects: sessionID, userID, conn state
    hubClients,     \* Hub.clients: pairs <<sessionID, client>>
    regPending,     \* clients with a `hub.register <- client` in flight
    now,            \* time.Now(), in hours
    hubPc,          \* where the hub goroutine stands inside a handler
    sweep,          \* where the cleanup goroutine stands inside cleanupSessions
    unregPending,   \* clients with a `hub.unregister <- c` in flight
    send,           \* Client.send: the buffered payloads, and whether closed
    callbacks,      \* how often the hub has called disconnectHandler(client)
    panicked,       \* the run-time panic that has ended the process, or ""
    clientsMu,      \* Hub.clientsMu: "free", "R" (read-locked) or "W" (locked)
    snapshot,       \* the client pointers a broadcast has copied, to send to
    names,          \* the display names handed to NewSession and AddParticipant
    contents        \* the note contents handed to AddNote

\* the sessions, the registry, the connections and the hub's table
core == <<heap, sessions, sessionsByCode, usedIds, clients, hubClients,
          regPending>>
\* the clock and the positions of the two goroutines that use the Manager
sweepVars == <<now, hubPc, sweep>>
\* the hub's unregister channel and the connections' outbound queues
hubVars == <<unregPending, send, callbacks, panicked>>
\* the membership lock of the Hub that has one, and a broadcast's copy
lockVars == <<clientsMu, snapshot>>
\* what the steps of the sweep and of the hub leave alone
\* the texts of the inbound messages that have reached a Session
inputVars == <<names, contents>>
besidesSweep == <<hubVars, lockVars, inputVars>>
besidesHub == <<sweepVars, lockVars, inputVars>>
\* what the handlers, taken as single steps, leave alone
aux == <<sweepVars, hubVars, lockVars, inputVars>>

vars == <<core, aux>>

----------------------------------------------------------------------------
(* Bounds of the model *)

\* participant ids are drawn from 1..MaxId
MaxId == 3
\* session ids are 1..MaxSessions
MaxSessions == 2
\* connections are 1..NumClients
NumClients == 3
\* AdvanceTurn is not called once the turn counter has reached MaxTurn
MaxTurn == 6
\* the clock stops at MaxNow hours
MaxNow == 2
\* the capacity of a connection's send channel
SendCap == 2

Ids == 1..MaxId
SessionIds == 1..MaxSessions
ClientIds == 1..NumClients

\* the alphabet generateSessionCode draws from (base32: upper case only)
CodeAlphabet == {"A", "B"}
\* codes as generated: one character of the alphabet
GeneratedCodes == {<<ch>> : ch \in CodeAlphabet}
\* codes as typed by a peer in join_session
TypedCodes == {<<>>, <<"A">>, <<"a">>, <<"b">>, <<" ", "B">>, <<"C">>}

----------------------------------------------------------------------------
(* Strings *)

ToUpperChar(ch) ==
    CASE ch = "a" -> "A"
      [] ch = "b" -> "B"
      [] ch = "c" -> "C"
      [] OTHER -> ch

ToUpper(str) == [i \in 1..Len(str) |-> ToUpperChar(str[i])]

RECURSIVE TrimLeft(_)
TrimLeft(str) ==
    IF str # <<>> /\ Head(str) = " " THEN TrimLeft(Tail(str)) ELSE str

RECURSIVE TrimRight(_)
TrimRight(str) ==
    IF str # <<>> /\ str[Len(str)] = " "
    THEN TrimRight(SubSeq(str, 1, Len(str) - 1))
    ELSE str

TrimSpace(str) == TrimRight(TrimLeft(str))

NormalizeCode(code) == ToUpper(TrimSpace(code))

----------------------------------------------------------------------------
(* Session: internal/session/session.go *)

PhaseJoining == "JOINING"
PhaseWriting == "WRITING"
PhaseReading == "READING"
PhaseComplete == "COMPLETE"

Phases == {PhaseJoining, PhaseWriting, PhaseReading, PhaseComplete}

\* a nil error, a nil *time.Time
Nil == "nil"
\* a nil *Participant and the empty participant id ""
NoParticipant == 0
\* a nil *Session and the empty session id ""
NoSession == 0
\* a *time.Time that is nil
NoTime == -1

Participant(id, isHost) == [ID |-> id, IsHost |-> isHost]

Note(authorID, recipientID) ==
    [AuthorID |-> authorID, RecipientID |-> recipientID, Read |-> FALSE]

NewSession(sid, code, hostID) ==
    [ID           |-> sid,
     Code         |-> code,
     Phase        |-> PhaseJoining,
     Participants |-> (hostID :> Participant(hostID, TRUE)),
     Notes        |-> <<>>,
     HostID       |-> hostID,
     CurrentTurn  |-> 0,
     CompletedAt  |-> NoTime]

\* len(s.Participants)
NumParticipants(s) == Cardinality(DOMAIN s.Participants)

\* delete(m, key)
MapDelete(m, key) == [k \in (DOMAIN m) \ {key} |-> m[k]]

\* Each method is an operator from the session to the pair of the session
\* it leaves behind and the value it returns.

\* a faulty AddParticipant: it does not look at the phase
AddParticipantInAnyPhase(s, newID) ==
    [s   |-> [s EXCEPT !.Participants =
                 (newID :> Participant(newID, FALSE)) @@ s.Participants],
     ret |-> newID,
     err |-> Nil]

AddParticipant(s, newID) ==
    IF s.Phase # PhaseJoining
    THEN [s |-> s, ret |-> NoParticipant,
          err |-> "cannot join: session has already started"]
    ELSE [s   |-> [s EXCEPT !.Participants =
                       (newID :> Participant(newID, FALSE)) @@ s.Participants],
          ret |-> newID,
          err |-> Nil]

\* a faulty duplicate scan: it finds nothing
NoteExistsNever(notes, authorID, recipientID) == FALSE

\* the duplicate scan of AddNote: some note has this author and recipient
NoteExists(notes, authorID, recipientID) ==
    \E i \in 1..Len(notes) :
        notes[i].AuthorID = authorID /\ notes[i].RecipientID = recipientID

\* a faulty AddNote: it lets a participant write to themselves
AddNoteToSelf(s, authorID, recipientID) ==
    IF s.Phase # PhaseWriting
    THEN [s |-> s, err |-> "cannot add note: not in writing phase"]
    ELSE IF authorID \notin DOMAIN s.Participants
    THEN [s |-> s, err |-> "author not found in session"]
    ELSE IF recipientID \notin DOMAIN s.Participants
    THEN [s |-> s, err |-> "recipient not found in session"]
    ELSE IF NoteExists(s.Notes, authorID, recipientID)
    THEN [s |-> s, err |-> "note already written to this person"]
    ELSE [s   |-> [s EXCEPT !.Notes = Append(s.Notes, Note(authorID, recipientID))],
          err |-> Nil]

AddNote(s, authorID, recipientID) ==
    IF s.Phase # PhaseWriting
    THEN [s |-> s, err |-> "cannot add note: not in writing phase"]
    ELSE IF authorID \notin DOMAIN s.Participants
    THEN [s |-> s, err |-> "author not found in session"]
    ELSE IF recipientID \notin DOMAIN s.Participants
    THEN [s |-> s, err |-> "recipient not found in session"]
    ELSE IF authorID = recipientID
    THEN [s |-> s, err |-> "cannot write note to yourself"]
    ELSE IF NoteExists(s.Notes, authorID, recipientID)
    THEN [s |-> s, err |-> "note already written to this person"]
    ELSE [s   |-> [s EXCEPT !.Notes = Append(s.Notes, Note(authorID, recipientID))],
          err |-> Nil]

\* a faulty TransitionToWriting: one participant is enough for it
TransitionToWritingAlone(s) ==
    IF s.Phase # PhaseJoining
    THEN [s |-> s, err |-> "can only transition to writing from joining phase"]
    ELSE IF NumParticipants(s) < 1
    THEN [s |-> s, err |-> "need at least 2 participants to start"]
    ELSE [s |-> [s EXCEPT !.Phase = PhaseWriting], err |-> Nil]

\* a faulty TransitionToWriting: it enters the reading phase directly
TransitionToWritingSkipsWriting(s) ==
    IF s.Phase # PhaseJoining
    THEN [s |-> s, err |-> "can only transition to writing from joining phase"]
    ELSE IF NumParticipants(s) < 2
    THEN [s |-> s, err |-> "need at least 2 participants to start"]
    ELSE [s |-> [s EXCEPT !.Phase = PhaseReading], err |-> Nil]

TransitionToWriting(s) ==
    IF s.Phase # PhaseJoining
    THEN [s |-> s, err |-> "can only transition to writing from joining phase"]
    ELSE IF NumParticipants(s) < 2
    THEN [s |-> s, err |-> "need at least 2 participants to start"]
    ELSE [s |-> [s EXCEPT !.Phase = PhaseWriting], err |-> Nil]

ExpectedNotes(s) == NumParticipants(s) * (NumParticipants(s) - 1)

\* a faulty TransitionToReading: it does not look at the phase
TransitionToReadingFromAnyPhase(s) ==
    IF Len(s.Notes) # ExpectedNotes(s)
    THEN [s |-> s, err |-> "not all notes have been written"]
    ELSE [s |-> [s EXCEPT !.Phase = PhaseReading], err |-> Nil]

\* a faulty TransitionToReading: it accepts more notes than expected
TransitionToReadingAtLeast(s) ==
    IF s.Phase # PhaseWriting
    THEN [s |-> s, err |-> "can only transition to reading from writing phase"]
    ELSE IF Len(s.Notes) < ExpectedNotes(s)
    THEN [s |-> s, err |-> "not all notes have been written"]
    ELSE [s |-> [s EXCEPT !.Phase = PhaseReading], err |-> Nil]

TransitionToReading(s) ==
    IF s.Phase # PhaseWriting
    THEN [s |-> s, err |-> "can only transition to reading from writing phase"]
    ELSE IF Len(s.Notes) # ExpectedNotes(s)
    THEN [s |-> s, err |-> "not all notes have been written"]
    ELSE [s |-> [s EXCEPT !.Phase = PhaseReading], err |-> Nil]

\* The loops over s.Notes keep the notes' order; a note is named by its
\* index in s.Notes, which stands for its generated ID.
RECURSIVE UnreadLoop(_, _)
UnreadLoop(notes, i) ==
    IF i > Len(notes) THEN <<>>
    ELSE IF ~notes[i].Read
         THEN <<i>> \o UnreadLoop(notes, i + 1)
         ELSE UnreadLoop(notes, i + 1)

GetUnreadNotes(s) == UnreadLoop(s.Notes, 1)

\* a faulty availability test: the recipient rule applies to two
\* participants as well
NoteIsAvailablePairRule(note, readerID, participantCount) ==
    IF note.Read THEN FALSE
    ELSE IF note.AuthorID = readerID THEN FALSE
    ELSE IF participantCount >= 2 /\ note.RecipientID = readerID THEN FALSE
    ELSE TRUE

\* one iteration of the loop of getAvailableNotesForReaderUnlocked:
\* FALSE where the loop body says `continue`
NoteIsAvailable(note, readerID, participantCount) ==
    IF note.Read THEN FALSE
    ELSE IF note.AuthorID = readerID THEN FALSE
    ELSE IF participantCount > 2 /\ note.RecipientID = readerID THEN FALSE
    ELSE TRUE

RECURSIVE AvailableLoop(_, _, _, _)
AvailableLoop(notes, readerID, participantCount, i) ==
    IF i > Len(notes) THEN <<>>
    ELSE IF NoteIsAvailable(notes[i], readerID, participantCount)
         THEN <<i>> \o AvailableLoop(notes, readerID, participantCount, i + 1)
         ELSE AvailableLoop(notes, readerID, participantCount, i + 1)

\* a faulty getAvailableNotesForReaderUnlocked: it counts one participant
\* too many
getAvailableNotesOffByOne(s, readerID) ==
    AvailableLoop(s.Notes, readerID, NumParticipants(s) + 1, 1)

getAvailableNotesForReaderUnlocked(s, readerID) ==
    AvailableLoop(s.Notes, readerID, NumParticipants(s), 1)

GetAvailableNotesForReader(s, readerID) ==
    getAvailableNotesForReaderUnlocked(s, readerID)

\* a faulty MarkNoteAsRead: it finds the note and leaves it unread
MarkNoteAsReadForgets(s, noteID) ==
    IF noteID \in 1..Len(s.Notes)
    THEN [s |-> s, err |-> Nil]
    ELSE [s |-> s, err |-> "note not found"]

\* noteID 0 stands for an id no note has
MarkNoteAsRead(s, noteID) ==
    IF noteID \in 1..Len(s.Notes)
    THEN [s |-> [s EXCEPT !.Notes[noteID].Read = TRUE], err |-> Nil]
    ELSE [s |-> s, err |-> "note not found"]

\* sort.Slice(participants, ID less): insertion of x into a sorted sequence
RECURSIVE InsertSorted(_, _)
InsertSorted(sorted, x) ==
    IF sorted = <<>> THEN <<x>>
    ELSE IF x < Head(sorted) THEN <<x>> \o sorted
    ELSE <<Head(sorted)>> \o InsertSorted(Tail(sorted), x)

RECURSIVE SortIds(_)
SortIds(seq) ==
    IF seq = <<>> THEN <<>> ELSE InsertSorted(SortIds(Tail(seq)), Head(seq))

\* The orders in which `range s.Participants` may visit the map's keys.
MapOrders(m) ==
    {order \in [1..Cardinality(DOMAIN m) -> DOMAIN m] :
        \A i, j \in DOMAIN order : i # j => order[i] # order[j]}

\* a faulty getParticipantsSorted: the slice is returned as collected
getParticipantsUnsorted(s, order) == order

\* order: the order in which the map iteration visited the participants
getParticipantsSorted(s, order) == SortIds(order)

GetCurrentReader(s, order) ==
    IF s.Phase # PhaseReading THEN NoParticipant
    ELSE LET participants == getParticipantsSorted(s, order)
         IN  IF Len(participants) = 0 THEN NoParticipant
             ELSE participants[(s.CurrentTurn % Len(participants)) + 1]

\* a faulty recordCompletion: every completion stamps the session anew
recordCompletionAgain(s) == [s EXCEPT !.CompletedAt = now]

\* The Session of internal/session/session.go has no CompletedAt field,
\* which manager.go and the tests read.  On entering COMPLETE the session
\* records the completion time, once.
recordCompletion(s) == [s EXCEPT !.CompletedAt = IF @ = NoTime THEN now ELSE @]

\* the for loop of AdvanceTurn, from iteration `attempt` on
RECURSIVE AdvanceLoop(_, _, _)
AdvanceLoop(s, participants, attempt) ==
    IF attempt >= Len(participants)
    THEN recordCompletion([s EXCEPT !.Phase = PhaseComplete])
    ELSE LET s1 == [s EXCEPT !.CurrentTurn = @ + 1]
             currentReaderIndex == s1.CurrentTurn % Len(participants)
             currentReader == participants[currentReaderIndex + 1]
             availableNotes == getAvailableNotesForReaderUnlocked(s1, currentReader)
         IN  IF Len(availableNotes) > 0 THEN s1
             ELSE AdvanceLoop(s1, participants, attempt + 1)

\* a faulty AdvanceTurn: it keeps the turn counter below the roster size
AdvanceTurnWrapping(s, order) ==
    LET participants == getParticipantsSorted(s, order)
    IN  IF Len(participants) = 0 THEN s
        ELSE [AdvanceLoop(s, participants, 0) EXCEPT
                 !.CurrentTurn = @ % Len(participants)]

\* a faulty AdvanceTurn: its loop makes one attempt fewer
AdvanceTurnOneShort(s, order) ==
    LET participants == getParticipantsSorted(s, order)
    IN  IF Len(participants) = 0 THEN s
        ELSE AdvanceLoop(s, participants, 1)

AdvanceTurn(s, order) ==
    LET participants == getParticipantsSorted(s, order)
    IN  IF Len(participants) = 0 THEN s
        ELSE AdvanceLoop(s, participants, 0)

\* a faulty RemoveParticipant: it refuses once the session has started
RemoveParticipantWhileJoining(s, participantID) ==
    IF participantID \notin DOMAIN s.Participants \/ s.Phase # PhaseJoining
    THEN [s |-> s, ret |-> NoParticipant, err |-> "participant not found"]
    ELSE [s   |-> [s EXCEPT !.Participants = MapDelete(s.Participants, participantID)],
          ret |-> participantID,
          err |-> Nil]

RemoveParticipant(s, participantID) ==
    IF participantID \notin DOMAIN s.Participants
    THEN [s |-> s, ret |-> NoParticipant, err |-> "participant not found"]
    ELSE [s   |-> [s EXCEPT !.Participants = MapDelete(s.Participants, participantID)],
          ret |-> participantID,
          err |-> Nil]

HasParticipant(s, participantID) == participantID \in DOMAIN s.Participants

----------------------------------------------------------------------------
(* Manager: internal/session/manager.go *)

\* m.sessionsByCode[normalizedCode] = session
CodeIndexPut(byCode, code, sid) ==
    (NormalizeCode(code) :> sid) @@ byCode

\* GetSessionByID: the session, or NoSession with "session not found"
GetSessionByID(sessionID) ==
    IF sessionID \in sessions THEN sessionID ELSE NoSession

\* GetSessionByCode: the session, or NoSession with "session not found"
GetSessionByCode(code) ==
    LET normalizedCode == NormalizeCode(code)
    IN  IF normalizedCode \in DOMAIN sessionsByCode
        THEN sessionsByCode[normalizedCode]
        ELSE NoSession

\* RemoveSession, on the two indexes
RemoveSessionIds(ids, sessionID) == ids \ {sessionID}

\* a faulty RemoveSession: it leaves the index by code as it is
RemoveSessionCodesKept(byCode, sessionID) == byCode

RemoveSessionCodes(byCode, sessionID) ==
    MapDelete(byCode, NormalizeCode(heap[sessionID].Code))

\* completed sessions are kept for one hour: now.Add(-1 * time.Hour)
Retention == 1

\* the decision cleanupSessions takes for one session, under its read lock;
\* CompletedAt.Before(completedThreshold) is strict
shouldRemove(s, completedThreshold) ==
    IF NumParticipants(s) = 0 THEN TRUE
    ELSE IF s.Phase = PhaseComplete /\ s.CompletedAt # NoTime
         THEN s.CompletedAt < completedThreshold
         ELSE FALSE

\* cleanupSessions: the sessions a pass started now deletes
CleanupVictims == {sid \in sessions : shouldRemove(heap[sid], now - Retention)}

----------------------------------------------------------------------------
(* Connections and the objects the program can still reach *)

\* a connection that has not asked for a session yet
NoClient == [sessionID |-> 0, userID |-> 0, conn |-> "open"]
\* a Client the hub has dropped: nothing refers to the object any more
Gone == [sessionID |-> 0, userID |-> 0, conn |-> "closed"]

\* A Session no index holds is unreachable for the program (the garbage
\* collector frees it); its place on the heap keeps a marker.
Collected == [ID |-> NoSession]

Live(ids, byCode) == ids \cup {byCode[code] : code \in DOMAIN byCode}

Collect(h, ids, byCode) ==
    [sid \in DOMAIN h |-> IF sid \in Live(ids, byCode) THEN h[sid] ELSE Collected]

\* the process has not panicked
NoPanic == ""
\* make(chan []byte, 256), empty
EmptyQueue == [buf |-> <<>>, closed |-> FALSE]

\* the hub goroutine is between two events
Idle == [op |-> "idle", c |-> 0, sid |-> 0]
\* the cleanup goroutine waits for its ticker
NoSweep == [run |-> FALSE, at |-> 0, todo |-> {}, victim |-> 0, reason |-> ""]

Init ==
    /\ heap = <<>>
    /\ sessions = {}
    /\ sessionsByCode = [code \in {} |-> 0]
    /\ usedIds = {}
    /\ clients = [c \in ClientIds |-> NoClient]
    /\ hubClients = {}
    /\ regPending = {}
    /\ now = 0
    /\ hubPc = Idle
    /\ sweep = NoSweep
    /\ unregPending = {}
    /\ send = [c \in ClientIds |-> EmptyQueue]
    /\ callbacks = [c \in ClientIds |-> 0]
    /\ panicked = NoPanic
    /\ clientsMu = "free"
    /\ snapshot = <<>>
    /\ names = <<>>
    /\ contents = <<>>

\* Connections are numbered in the order in which they first do something:
\* a connection that has done nothing yet acts only after those before it.
InOrder(c) ==
    clients[c] # NoClient \/ \A d \in 1..(c - 1) : clients[d] # NoClient

\* the next session object's id
NextSessionId == Len(heap) + 1

\* the session a handler holds a pointer to
Sess(sid) == heap[sid]

\* the effect of a handler that only answers its client with an error: the
\* sessions, the registry and the hub are left as they were
Rejected(op, c, err) == UNCHANGED core

----------------------------------------------------------------------------
(* MessageHandler: one action per inbound message type *)

\* create_session from connection c; the code and the host id are what the
\* random source returns
handleCreateSession(c, code, hostID) ==
    /\ NextSessionId <= MaxSessions
    /\ hostID \in Ids \ usedIds
    /\ LET sid == NextSessionId
       IN  /\ heap' = Append(heap, NewSession(sid, code, hostID))
           /\ sessions' = sessions \cup {sid}
           /\ sessionsByCode' = CodeIndexPut(sessionsByCode, code, sid)
           /\ usedIds' = usedIds \cup {hostID}
           /\ clients' = [clients EXCEPT ![c].sessionID = sid, ![c].userID = hostID]
           /\ regPending' = regPending \cup {c}
           /\ UNCHANGED hubClients

\* join_session from connection c with the code as typed; newID is what
\* generateID returns inside AddParticipant
handleJoinSession(c, sessionCode, newID) ==
    IF sessionCode = <<>>
    THEN Rejected("join_session", c, "session code required")
    ELSE LET sid == GetSessionByCode(sessionCode)
         IN  IF sid = NoSession
             THEN Rejected("join_session", c, "session not found")
             ELSE LET r == AddParticipant(Sess(sid), newID)
                  IN  IF r.err # Nil
                      THEN Rejected("join_session", c, r.err)
                      ELSE /\ newID \notin usedIds
                           /\ heap' = [heap EXCEPT ![sid] = r.s]
                           /\ usedIds' = usedIds \cup {newID}
                           /\ clients' = [clients EXCEPT ![c].sessionID = sid,
                                                         ![c].userID = r.ret]
                           /\ regPending' = regPending \cup {c}
                           /\ UNCHANGED <<sessions, sessionsByCode, hubClients>>

\* start_writing from connection c
handleStartWriting(c) ==
    LET sid == GetSessionByID(clients[c].sessionID)
    IN  IF sid = NoSession
        THEN Rejected("start_writing", c, "session not found")
        ELSE IF clients[c].userID # Sess(sid).HostID
        THEN Rejected("start_writing", c, "only host can start writing phase")
        ELSE LET r == TransitionToWriting(Sess(sid))
             IN  IF r.err # Nil
                 THEN Rejected("start_writing", c, r.err)
                 ELSE /\ heap' = [heap EXCEPT ![sid] = r.s]
                      /\ UNCHANGED <<sessions, sessionsByCode, usedIds, clients,
                                     hubClients, regPending>>

\* the loop of handleSubmitNotes over the submitted notes: it stops at the
\* first note AddNote rejects
RECURSIVE SubmitLoop(_, _, _)
SubmitLoop(s, authorID, notes) ==
    IF notes = <<>> THEN [s |-> s, err |-> Nil]
    ELSE LET r == AddNote(s, authorID, Head(notes))
         IN  IF r.err # Nil THEN r
             ELSE SubmitLoop(r.s, authorID, Tail(notes))

\* what handleSubmitNotes does after the loop has added every note: the
\* transition to reading once the count of notes is the expected one
AutoTransition(s) ==
    IF Len(s.Notes) = ExpectedNotes(s)
    THEN TransitionToReading(s).s
    ELSE s

\* submit_notes from connection c; notes is the list of recipient ids
handleSubmitNotes(c, notes) ==
    LET sid == GetSessionByID(clients[c].sessionID)
    IN  IF sid = NoSession
        THEN Rejected("submit_notes", c, "session not found")
        ELSE LET added == SubmitLoop(Sess(sid), clients[c].userID, notes)
             IN  /\ heap' = [heap EXCEPT ![sid] =
                                IF added.err # Nil THEN added.s
                                ELSE AutoTransition(added.s)]
                 /\ UNCHANGED <<sessions, sessionsByCode, usedIds, clients,
                                hubClients, regPending>>

\* draw_note from connection c: the turn advances when the reader has
\* nothing to draw, and nothing changes otherwise.  GetCurrentReader and
\* AdvanceTurn each visit the roster map, in orders of their own.
handleDrawNote(c) ==
    LET sid == GetSessionByID(clients[c].sessionID)
    IN  IF sid = NoSession
        THEN Rejected("draw_note", c, "session not found")
        ELSE \E order \in MapOrders(Sess(sid).Participants) :
             LET currentReader == GetCurrentReader(Sess(sid), order)
             IN  IF currentReader = NoParticipant \/ currentReader # clients[c].userID
                 THEN Rejected("draw_note", c, "not your turn")
                 ELSE IF Len(GetAvailableNotesForReader(Sess(sid), clients[c].userID)) = 0
                 THEN /\ Sess(sid).CurrentTurn < MaxTurn
                      /\ \E order2 \in MapOrders(Sess(sid).Participants) :
                             heap' = [heap EXCEPT ![sid] = AdvanceTurn(Sess(sid), order2)]
                      /\ UNCHANGED <<sessions, sessionsByCode, usedIds, clients,
                                     hubClients, regPending>>
                 ELSE UNCHANGED core

\* note_read from connection c naming note noteID (0: an id no note has)
handleNoteRead(c, noteID) ==
    LET sid == GetSessionByID(clients[c].sessionID)
    IN  IF sid = NoSession
        THEN Rejected("note_read", c, "session not found")
        ELSE \E order \in MapOrders(Sess(sid).Participants) :
             LET currentReader == GetCurrentReader(Sess(sid), order)
             IN  IF currentReader = NoParticipant \/ currentReader # clients[c].userID
                 THEN Rejected("note_read", c, "not your turn")
                 ELSE /\ Sess(sid).CurrentTurn < MaxTurn
                      /\ noteID <= Len(Sess(sid).Notes)
                      /\ \E order2 \in MapOrders(Sess(sid).Participants) :
                             heap' = [heap EXCEPT ![sid] =
                                         AdvanceTurn(MarkNoteAsRead(Sess(sid), noteID).s,
                                                     order2)]
                      /\ UNCHANGED <<sessions, sessionsByCode, usedIds, clients,
                                     hubClients, regPending>>

\* remove_participant from connection c naming participantID (0: "")
handleRemoveParticipant(c, participantID) ==
    LET sid == GetSessionByID(clients[c].sessionID)
    IN  IF sid = NoSession
        THEN Rejected("remove_participant", c, "session not found")
        ELSE IF clients[c].userID # Sess(sid).HostID
        THEN Rejected("remove_participant", c, "only host can remove participants")
        ELSE IF participantID = NoParticipant
        THEN Rejected("remove_participant", c, "participant ID required")
        ELSE IF participantID = clients[c].userID
        THEN Rejected("remove_participant", c, "cannot remove yourself")
        ELSE LET r == RemoveParticipant(Sess(sid), participantID)
             IN  IF r.err # Nil
                 THEN Rejected("remove_participant", c, r.err)
                 ELSE /\ heap' = [heap EXCEPT ![sid] = r.s]
                      /\ UNCHANGED <<sessions, sessionsByCode, usedIds, clients,
                                     hubClients, regPending>>

\* a faulty failover: the host id moves, the flag does not
AssignHostIdOnly(s, newHost) == [s EXCEPT !.HostID = newHost]

\* the host failover of HandleClientDisconnect: newHost is the participant
\* the map iteration visits first
AssignHost(s, newHost) ==
    [s EXCEPT !.Participants[newHost].IsHost = TRUE, !.HostID = newHost]

\* HandleClientDisconnect(c), called by the hub once c has left its group
HandleClientDisconnect(c) ==
    LET sid == GetSessionByID(clients[c].sessionID)
    IN  IF clients[c].sessionID = NoSession \/ clients[c].userID = NoParticipant
        THEN UNCHANGED <<heap, sessions, sessionsByCode>>
        ELSE IF sid = NoSession
        THEN UNCHANGED <<heap, sessions, sessionsByCode>>
        ELSE LET wasHost == clients[c].userID = Sess(sid).HostID
                 r == RemoveParticipant(Sess(sid), clients[c].userID)
             IN  IF r.err # Nil
                 THEN UNCHANGED <<heap, sessions, sessionsByCode>>
                 ELSE IF NumParticipants(r.s) = 0
                 THEN /\ sessions' = RemoveSessionIds(sessions, sid)
                      /\ sessionsByCode' = RemoveSessionCodes(sessionsByCode, sid)
                      /\ heap' = Collect([heap EXCEPT ![sid] = r.s],
                                         sessions', sessionsByCode')
                 ELSE /\ \E newHost \in DOMAIN r.s.Participants :
                            heap' = [heap EXCEPT ![sid] =
                                        IF wasHost THEN AssignHost(r.s, newHost) ELSE r.s]
                      /\ UNCHANGED <<sessions, sessionsByCode>>

----------------------------------------------------------------------------
(* Hub: internal/websocket/hub.go, the cases of Run *)

\* case client := <-h.register
Register(c) ==
    /\ c \in regPending
    /\ regPending' = regPending \ {c}
    /\ hubClients' = hubClients \cup {<<clients[c].sessionID, c>>}
    /\ UNCHANGED <<heap, sessions, sessionsByCode, usedIds, clients>>

\* case client := <-h.unregister: the read loop of c has ended
Unregister(c) ==
    /\ clients[c].conn = "open"
    /\ clients' = [clients EXCEPT ![c] = Gone]
    /\ UNCHANGED <<usedIds, regPending>>
    /\ IF <<clients[c].sessionID, c>> \in hubClients
       THEN /\ hubClients' = hubClients \ {<<clients[c].sessionID, c>>}
            /\ HandleClientDisconnect(c)
       ELSE UNCHANGED <<heap, sessions, sessionsByCode, hubClients>>

----------------------------------------------------------------------------
(* The sweep: Manager.cleanupSessions *)

cleanupSessions ==
    /\ sessions' = sessions \ CleanupVictims
    /\ sessionsByCode' =
           LET codes == {NormalizeCode(heap[sid].Code) : sid \in CleanupVictims}
           IN  [code \in (DOMAIN sessionsByCode) \ codes |-> sessionsByCode[code]]
    /\ heap' = Collect(heap, sessions', sessionsByCode')
    /\ UNCHANGED <<usedIds, clients, hubClients, regPending>>

----------------------------------------------------------------------------
(* The system: inbound messages, the hub's loop and the sweep *)

\* the ids of S in increasing order
RECURSIVE Ascending(_)
Ascending(S) ==
    IF S = {} THEN <<>>
    ELSE LET x == CHOOSE x \in S : TRUE
         IN  InsertSorted(Ascending(S \ {x}), x)

\* The lists of recipient ids a submit_notes of connection c may carry: none,
\* one note for every other participant of its session, or one note for
\* every other participant the peer has ever been told of (a list written
\* before a participant left).
Batches(c) ==
    LET sid == clients[c].sessionID
        others == IF sid \in sessions
                  THEN (DOMAIN heap[sid].Participants) \ {clients[c].userID}
                  ELSE {}
    IN  {<<>>, Ascending(others), Ascending(usedIds \ {clients[c].userID})}

\* The schedule Spec explores: the hub takes a pending registration before
\* any other event, a connection asks for a session only while it has none,
\* and what a connection sent is handled before its read loop ends.
Quiet == regPending = {}
\* generateID returns id: an id not handed out before, the least of them
Fresh(id) == id \in Ids \ usedIds /\ \A x \in Ids \ usedIds : id <= x
Sends(c) == clients[c].conn = "open"
Unbound(c) == clients[c].sessionID = NoSession

Next ==
    \/ \E c \in ClientIds, code \in GeneratedCodes, hostID \in Ids :
           /\ Quiet /\ Sends(c) /\ Unbound(c) /\ InOrder(c)
           /\ Fresh(hostID)
           /\ handleCreateSession(c, code, hostID)
           /\ UNCHANGED aux
    \/ \E c \in ClientIds, code \in TypedCodes, newID \in Ids :
           /\ Quiet /\ Sends(c) /\ Unbound(c) /\ InOrder(c)
           /\ Fresh(newID)
           /\ handleJoinSession(c, code, newID)
           /\ UNCHANGED aux
    \/ \E c \in ClientIds :
           Quiet /\ Sends(c) /\ handleStartWriting(c) /\ UNCHANGED aux
    \/ \E c \in ClientIds : \E notes \in Batches(c) :
           Quiet /\ Sends(c) /\ handleSubmitNotes(c, notes) /\ UNCHANGED aux
    \/ \E c \in ClientIds :
           Quiet /\ Sends(c) /\ handleDrawNote(c) /\ UNCHANGED aux
    \/ \E c \in ClientIds, noteID \in 0..(MaxId * (MaxId - 1)) :
           Quiet /\ Sends(c) /\ handleNoteRead(c, noteID) /\ UNCHANGED aux
    \/ \E c \in ClientIds, participantID \in 0..MaxId :
           Quiet /\ Sends(c) /\ handleRemoveParticipant(c, participantID)
                 /\ UNCHANGED aux
    \/ \E c \in ClientIds : Register(c) /\ UNCHANGED aux
    \/ \E c \in ClientIds :
           Quiet /\ InOrder(c) /\ Unregister(c) /\ UNCHANGED aux
    \/ Quiet /\ cleanupSessions /\ UNCHANGED aux

Spec == Init /\ [][Next]_vars

----------------------------------------------------------------------------
(* The sweep and the hub, step by step.                                    *)
(*                                                                         *)
(* cleanupSessions runs on the goroutine of StartCleanupRoutine and holds  *)
(* the Manager's lock for the whole pass; every handler runs on the hub's  *)
(* goroutine.  A handler step that calls GetSessionByID, GetSessionByCode, *)
(* CreateSession or RemoveSession waits for that lock; the methods of a    *)
(* Session take the session's own lock only and run during a pass.         *)
(* handleJoinSession and HandleClientDisconnect, the two handlers that     *)
(* change the size of a roster around a call of the Manager, are split at  *)
(* that call.  The other handlers look their session up first and then     *)
(* neither empty a roster nor set a completion time in the past, so the    *)
(* sweep decides the same before and after them: they stay single steps.   *)
(***************************************************************************)

\* the Manager's lock is free
ManagerFree == ~sweep.run
\* a hub that starts a handler while another one is under way
HubIdleAlways == TRUE
\* the hub goroutine is in its select
HubIdle == hubPc = Idle

\* a Session stays on the heap while an index or a handler's `sess` holds it
Pin(h, ids, byCode, keep) ==
    [sid \in DOMAIN h |->
        IF sid \in Live(ids, byCode) \cup keep THEN h[sid] ELSE Collected]

\* An hour passes.  The sweep compares the clock with completion times
\* only, so the hours are counted from the first completion on.
Tick ==
    /\ now < MaxNow
    /\ \E sid \in sessions : heap[sid].Phase = PhaseComplete
    /\ now' = now + 1
    /\ UNCHANGED <<core, hubPc, sweep>>

\* handleJoinSession up to GetSessionByCode
joinLookup(c, sessionCode) ==
    /\ HubIdle /\ ManagerFree
    /\ IF sessionCode = <<>>
       THEN Rejected("join_session", c, "session code required") /\ UNCHANGED hubPc
       ELSE LET sid == GetSessionByCode(sessionCode)
            IN  IF sid = NoSession
                THEN Rejected("join_session", c, "session not found")
                     /\ UNCHANGED hubPc
                ELSE /\ hubPc' = [op |-> "join", c |-> c, sid |-> sid]
                     /\ UNCHANGED core
    /\ UNCHANGED <<now, sweep>>

\* handleJoinSession from sess.AddParticipant on
joinAdd(newID) ==
    /\ hubPc.op = "join"
    /\ hubPc' = Idle
    /\ LET c == hubPc.c
           sid == hubPc.sid
           r == AddParticipant(Sess(sid), newID)
       IN  IF r.err # Nil
           THEN /\ heap' = Pin(heap, sessions, sessionsByCode, {})
                /\ UNCHANGED <<sessions, sessionsByCode, usedIds, clients,
                               hubClients, regPending>>
           ELSE /\ newID \notin usedIds
                /\ heap' = Pin([heap EXCEPT ![sid] = r.s], sessions, sessionsByCode, {})
                /\ usedIds' = usedIds \cup {newID}
                /\ clients' = [clients EXCEPT ![c].sessionID = sid,
                                              ![c].userID = r.ret]
                /\ regPending' = regPending \cup {c}
                /\ UNCHANGED <<sessions, sessionsByCode, hubClients>>
    /\ UNCHANGED <<now, sweep>>

\* case client := <-h.unregister, and HandleClientDisconnect up to the test
\* for an empty roster
disconnectRemove(c) ==
    /\ HubIdle /\ ManagerFree
    /\ clients[c].conn = "open"
    /\ clients' = [clients EXCEPT ![c] = Gone]
    /\ UNCHANGED <<usedIds, regPending, sessions, sessionsByCode, now, sweep>>
    /\ IF <<clients[c].sessionID, c>> \notin hubClients
       THEN UNCHANGED <<heap, hubClients, hubPc>>
       ELSE /\ hubClients' = hubClients \ {<<clients[c].sessionID, c>>}
            /\ LET sid == GetSessionByID(clients[c].sessionID)
               IN  IF clients[c].sessionID = NoSession
                      \/ clients[c].userID = NoParticipant
                      \/ sid = NoSession
                   THEN UNCHANGED <<heap, hubPc>>
                   ELSE LET wasHost == clients[c].userID = Sess(sid).HostID
                            r == RemoveParticipant(Sess(sid), clients[c].userID)
                        IN  IF r.err # Nil
                            THEN UNCHANGED <<heap, hubPc>>
                            ELSE IF NumParticipants(r.s) = 0
                            THEN /\ heap' = [heap EXCEPT ![sid] = r.s]
                                 /\ hubPc' = [op |-> "disconnect", c |-> c, sid |-> sid]
                            ELSE /\ \E newHost \in DOMAIN r.s.Participants :
                                      heap' = [heap EXCEPT ![sid] =
                                          IF wasHost THEN AssignHost(r.s, newHost)
                                          ELSE r.s]
                                 /\ UNCHANGED hubPc

\* HandleClientDisconnect: mh.sessionManager.RemoveSession(sess.ID) for the
\* session it has emptied; "session not found" when the sweep was faster
disconnectRemoveSession ==
    /\ hubPc.op = "disconnect" /\ ManagerFree
    /\ hubPc' = Idle
    /\ IF hubPc.sid \in sessions
       THEN /\ sessions' = RemoveSessionIds(sessions, hubPc.sid)
            /\ sessionsByCode' = RemoveSessionCodes(sessionsByCode, hubPc.sid)
       ELSE UNCHANGED <<sessions, sessionsByCode>>
    /\ heap' = Pin(heap, sessions', sessionsByCode', {})
    /\ UNCHANGED <<usedIds, clients, hubClients, regPending, now, sweep>>

\* cleanupSessions: m.mu.Lock(), now := time.Now(), and the range over
\* m.sessions begins
sweepLock ==
    /\ ~sweep.run
    /\ sweep' = [run |-> TRUE, at |-> now, todo |-> sessions, victim |-> 0,
                 reason |-> ""]
    /\ UNCHANGED <<core, now, hubPc>>

\* one iteration of the range, up to session.mu.RUnlock()
sweepExamine(sessionID) ==
    /\ sweep.run /\ sweep.victim = 0
    /\ sessionID \in sweep.todo
    /\ LET session == heap[sessionID]
           remove == shouldRemove(session, sweep.at - Retention)
       IN  sweep' = [sweep EXCEPT
                        !.todo = @ \ {sessionID},
                        !.victim = IF remove THEN sessionID ELSE 0,
                        !.reason = IF ~remove THEN ""
                                   ELSE IF NumParticipants(session) = 0
                                        THEN "abandoned (no participants)"
                                        ELSE "completed over 1 hour ago"]
    /\ UNCHANGED <<core, now, hubPc>>

\* the iteration's `if shouldRemove`: the two deletes
sweepDelete ==
    /\ sweep.run /\ sweep.victim # 0
    /\ sessions' = sessions \ {sweep.victim}
    /\ sessionsByCode' =
           MapDelete(sessionsByCode, NormalizeCode(heap[sweep.victim].Code))
    /\ heap' = Pin(heap, sessions', sessionsByCode',
                   IF hubPc = Idle THEN {} ELSE {hubPc.sid})
    /\ sweep' = [sweep EXCEPT !.victim = 0, !.reason = ""]
    /\ UNCHANGED <<usedIds, clients, hubClients, regPending, now, hubPc>>

\* the range is over: the deferred m.mu.Unlock()
sweepUnlock ==
    /\ sweep.run /\ sweep.victim = 0 /\ sweep.todo = {}
    /\ sweep' = NoSweep
    /\ UNCHANGED <<core, now, hubPc>>

\* the codes peers type in SpecSweep: those of the two sessions, in lower
\* case, and one no session has
SweepTypedCodes == {<<"a">>, <<"b">>, <<"C">>}

\* a handler that is one step of the hub goroutine
HubStep == HubIdle /\ ManagerFree /\ Quiet /\ UNCHANGED aux

NextSweep ==
    \/ \E c \in ClientIds, code \in GeneratedCodes, hostID \in Ids :
           /\ HubStep /\ Sends(c) /\ Unbound(c) /\ InOrder(c)
           /\ Fresh(hostID)
           /\ handleCreateSession(c, code, hostID)
    \/ \E c \in ClientIds, code \in SweepTypedCodes :
           /\ Quiet /\ Sends(c) /\ Unbound(c) /\ InOrder(c)
           /\ usedIds # Ids
           /\ joinLookup(c, code) /\ UNCHANGED besidesSweep
    \/ \E newID \in Ids : Fresh(newID) /\ joinAdd(newID) /\ UNCHANGED besidesSweep
    \/ \E c \in ClientIds : HubStep /\ Sends(c) /\ handleStartWriting(c)
    \/ \E c \in ClientIds : \E notes \in Batches(c) :
           HubStep /\ Sends(c) /\ handleSubmitNotes(c, notes)
    \/ \E c \in ClientIds, noteID \in 0..(MaxId * (MaxId - 1)) :
           HubStep /\ Sends(c) /\ handleNoteRead(c, noteID)
    \/ \E c \in ClientIds : HubIdle /\ Register(c) /\ UNCHANGED aux
    \/ \E c \in ClientIds :
           Quiet /\ InOrder(c) /\ disconnectRemove(c) /\ UNCHANGED besidesSweep
    \/ disconnectRemoveSession /\ UNCHANGED besidesSweep
    \/ Tick /\ UNCHANGED besidesSweep
    \/ sweepLock /\ UNCHANGED besidesSweep
    \/ \E sessionID \in SessionIds : sweepExamine(sessionID) /\ UNCHANGED besidesSweep
    \/ sweepDelete /\ UNCHANGED besidesSweep
    \/ sweepUnlock /\ UNCHANGED besidesSweep

SpecSweep == Init /\ [][NextSweep]_vars

----------------------------------------------------------------------------
(* The hub and the connections' outbound queues: internal/websocket/hub.go *)
(* and the Client of the websocket package.                                *)
(*                                                                         *)
(* A Client's send channel is a FIFO of capacity SendCap that can be       *)
(* closed.  The hub goroutine runs the handlers, the register case and the *)
(* unregister case; each connection has a read loop, a write loop and an   *)
(* inactivity watchdog of its own.  A run-time panic ends the process.     *)
(***************************************************************************)

\* the channels and the fate of the process, as the sends of one handler
\* transform them
Channels == [send |-> send, panicked |-> panicked]

\* Client.SendMessage: `select { case c.send <- data: default: close(c.send) }`.
\* A send on a closed channel panics, inside a select too.
SendMessage(ch, c, msgType) ==
    IF ch.panicked # NoPanic THEN ch
    ELSE IF ch.send[c].closed
    THEN [ch EXCEPT !.panicked = "send on closed channel"]
    ELSE IF Len(ch.send[c].buf) < SendCap
    THEN [ch EXCEPT !.send[c].buf = Append(@, msgType)]
    ELSE [ch EXCEPT !.send[c].closed = TRUE]

\* SendMessage to the connections of `order`, one after the other
RECURSIVE SendAll(_, _, _)
SendAll(ch, order, msgType) ==
    IF order = <<>> THEN ch
    ELSE SendAll(SendMessage(ch, Head(order), msgType), Tail(order), msgType)

\* h.clients[sessionID], in table hc
Group(hc, sessionID) == {c \in ClientIds : <<sessionID, c>> \in hc}

\* the orders in which `range sessionClients` may visit the group
GroupOrders(hc, sessionID) ==
    {order \in [1..Cardinality(Group(hc, sessionID)) -> Group(hc, sessionID)] :
        \A i, j \in DOMAIN order : i # j => order[i] # order[j]}

\* the connections of order whose userID is not exceptUserID, in order
RECURSIVE Except(_, _, _)
Except(cl, order, exceptUserID) ==
    IF order = <<>> THEN <<>>
    ELSE IF cl[Head(order)].userID # exceptUserID
         THEN <<Head(order)>> \o Except(cl, Tail(order), exceptUserID)
         ELSE Except(cl, Tail(order), exceptUserID)

\* the first connection of order whose userID is userID, if any
RECURSIVE FirstOf(_, _, _)
FirstOf(cl, order, userID) ==
    IF order = <<>> THEN <<>>
    ELSE IF cl[Head(order)].userID = userID THEN <<Head(order)>>
    ELSE FirstOf(cl, Tail(order), userID)

\* Hub.BroadcastToSession; order is the order of the range over the group
BroadcastToSession(ch, order, msgType) == SendAll(ch, order, msgType)

\* Hub.BroadcastToSessionExcept; cl holds the Clients' userID fields
BroadcastToSessionExcept(ch, cl, order, exceptUserID, msgType) ==
    SendAll(ch, Except(cl, order, exceptUserID), msgType)

\* Hub.SendToUser
SendToUser(ch, cl, order, userID, msgType) ==
    SendAll(ch, FirstOf(cl, order, userID), msgType)

\* the handler's sends have led to ch
Sent(ch) == send' = ch.send /\ panicked' = ch.panicked

\* the peer that may fall behind: its write loop runs at any pace
SlowPeer == NumClients

\* The schedule SpecHub explores: the process is alive, and the write loops
\* of the peers other than SlowPeer have sent what was queued for them
\* before the next event is taken.
Alive ==
    /\ panicked = NoPanic
    /\ \A c \in ClientIds \ {SlowPeer} :
           clients[c].conn = "open" => send[c].buf = <<>>
\* The hub takes the register and unregister requests in flight, in any
\* order, before the next inbound message.
Served == Alive /\ regPending = {} /\ unregPending = {}

\* create_session, with the session_created answer
hubCreateSession(c, code, hostID) ==
    /\ handleCreateSession(c, code, hostID)
    /\ Sent(SendMessage(Channels, c, "session_created"))
    /\ UNCHANGED <<unregPending, callbacks>>

\* join_session: an error, or the session_joined answer and the
\* participant_joined broadcast to the others
hubJoinSession(c, sessionCode, newID) ==
    /\ handleJoinSession(c, sessionCode, newID)
    /\ IF clients'[c] = clients[c]
       THEN Sent(SendMessage(Channels, c, "error"))
       ELSE \E order \in GroupOrders(hubClients, clients'[c].sessionID) :
                Sent(BroadcastToSessionExcept(
                         SendMessage(Channels, c, "session_joined"),
                         clients', order, newID, "participant_joined"))
    /\ UNCHANGED <<unregPending, callbacks>>

\* start_writing: an error, or the phase_changed broadcast
hubStartWriting(c) ==
    /\ handleStartWriting(c)
    /\ IF heap' = heap
       THEN Sent(SendMessage(Channels, c, "error"))
       ELSE \E order \in GroupOrders(hubClients, clients[c].sessionID) :
                Sent(BroadcastToSession(Channels, order, "phase_changed"))
    /\ UNCHANGED <<unregPending, callbacks>>

\* remove_participant: an error, or kicked to the removed participant's
\* connection and participant_left to the group
hubRemoveParticipant(c, participantID) ==
    /\ handleRemoveParticipant(c, participantID)
    /\ IF heap' = heap
       THEN Sent(SendMessage(Channels, c, "error"))
       ELSE \E order \in GroupOrders(hubClients, clients[c].sessionID) :
            \E order2 \in GroupOrders(hubClients, clients[c].sessionID) :
                Sent(BroadcastToSession(
                         SendToUser(Channels, clients, order, participantID, "kicked"),
                         order2, "participant_left"))
    /\ UNCHANGED <<unregPending, callbacks>>

\* the read loop of c ends (the peer closed the stream, a read failed, or
\* the connection was closed under it): the deferred `hub.unregister <- c`
readLoopEnds(c) ==
    /\ clients[c].conn = "open"
    /\ clients' = [clients EXCEPT ![c].conn = "closed"]
    /\ unregPending' = unregPending \cup {c}
    /\ UNCHANGED <<heap, sessions, sessionsByCode, usedIds, hubClients,
                   regPending, send, callbacks, panicked>>

\* The inactivity watchdog of c fires: the timeout notice, then conn.Close(),
\* which ends the read loop if it has not ended yet.  The watchdog goroutine
\* outlives the read loop (nothing stops its ticker), so it fires on a
\* connection that is closed already as well; it fires once and returns.
inactivityTimeout(c) ==
    /\ clients[c].conn \in {"open", "closed"}
    /\ Sent(SendMessage(Channels, c, "timeout"))
    /\ clients' = [clients EXCEPT ![c].conn = "expired"]
    /\ unregPending' = IF clients[c].conn = "open"
                       THEN unregPending \cup {c} ELSE unregPending
    /\ UNCHANGED <<heap, sessions, sessionsByCode, usedIds, hubClients,
                   regPending, callbacks>>

\* one round of the write loop of c: a payload goes to the peer, or the
\* channel is closed and drained and the loop returns, closing the stream
writePump(c) ==
    /\ clients[c].conn = "open"
    /\ IF send[c].buf # <<>>
       THEN /\ send' = [send EXCEPT ![c].buf = Tail(@)]
            /\ UNCHANGED <<clients, unregPending>>
       ELSE /\ send[c].closed
            /\ clients' = [clients EXCEPT ![c].conn = "closed"]
            /\ unregPending' = unregPending \cup {c}
            /\ UNCHANGED send
    /\ UNCHANGED <<heap, sessions, sessionsByCode, usedIds, hubClients,
                   regPending, callbacks, panicked>>

\* HandleClientDisconnect(c) gets as far as its participant_left broadcast
disconnectBroadcasts(c) ==
    /\ clients[c].sessionID # NoSession /\ clients[c].userID # NoParticipant
    /\ GetSessionByID(clients[c].sessionID) # NoSession
    /\ clients[c].userID \in DOMAIN Sess(clients[c].sessionID).Participants
    /\ NumParticipants(Sess(clients[c].sessionID)) > 1

\* case client := <-h.unregister, with the disconnect callback
hubUnregister(c) ==
    /\ c \in unregPending
    /\ unregPending' = unregPending \ {c}
    /\ UNCHANGED <<usedIds, clients, regPending>>
    /\ IF <<clients[c].sessionID, c>> \notin hubClients
       THEN UNCHANGED <<heap, sessions, sessionsByCode, hubClients, send,
                        callbacks, panicked>>
       ELSE /\ hubClients' = hubClients \ {<<clients[c].sessionID, c>>}
            /\ IF send[c].closed
               THEN /\ panicked' = "close of closed channel"
                    /\ UNCHANGED <<heap, sessions, sessionsByCode, send, callbacks>>
               ELSE /\ callbacks' = [callbacks EXCEPT ![c] = @ + 1]
                    /\ HandleClientDisconnect(c)
                    /\ LET closed == [Channels EXCEPT !.send[c].closed = TRUE]
                       IN  IF disconnectBroadcasts(c)
                           THEN \E order \in GroupOrders(hubClients',
                                                         clients[c].sessionID) :
                                    Sent(BroadcastToSession(closed, order,
                                                            "participant_left"))
                           ELSE Sent(closed)

\* the codes peers type in SpecHub
HubTypedCodes == {<<"a">>, <<"C">>}

\* SpecHub: connections create and join sessions, the host starts the
\* writing phase and removes participants, streams close at any time, and
\* the hub takes registrations and unregistrations in any order.
NextHub ==
    \/ \E c \in ClientIds, code \in GeneratedCodes, hostID \in Ids :
           /\ Served /\ Sends(c) /\ Unbound(c) /\ InOrder(c)
           /\ Fresh(hostID) /\ code \notin DOMAIN sessionsByCode
           /\ hubCreateSession(c, code, hostID)
           /\ UNCHANGED besidesHub
    \/ \E c \in ClientIds, code \in HubTypedCodes, newID \in Ids :
           /\ Served /\ Sends(c) /\ Unbound(c) /\ InOrder(c)
           /\ Fresh(newID)
           /\ hubJoinSession(c, code, newID)
           /\ UNCHANGED besidesHub
    \/ \E c \in ClientIds :
           Served /\ Sends(c) /\ hubStartWriting(c) /\ UNCHANGED besidesHub
    \/ \E c \in ClientIds, participantID \in Ids :
           /\ Served /\ Sends(c)
           /\ hubRemoveParticipant(c, participantID)
           /\ UNCHANGED besidesHub
    \/ \E c \in ClientIds :
           Alive /\ Register(c) /\ UNCHANGED aux
    \/ \E c \in ClientIds :
           Alive /\ hubUnregister(c) /\ UNCHANGED besidesHub
    \/ \E c \in ClientIds :
           Alive /\ InOrder(c) /\ readLoopEnds(c) /\ UNCHANGED besidesHub
    \/ \E c \in ClientIds :
           Alive /\ inactivityTimeout(c) /\ UNCHANGED besidesHub
    \/ \E c \in ClientIds :
           panicked = NoPanic /\ writePump(c) /\ UNCHANGED besidesHub

SpecHub == Init /\ [][NextHub]_vars

----------------------------------------------------------------------------
(* The Hub that guards its table with clientsMu (a sync.RWMutex), one step *)
(* per lock operation.  The hub goroutine runs the register case, the      *)
(* unregister case with the disconnect callback, and the handlers; the     *)
(* three sends copy the client pointers under the read lock and send after *)
(* RUnlock.  A sync.RWMutex is not reentrant: RLock waits while the write  *)
(* lock is held, by whichever goroutine.                                   *)
(***************************************************************************)

\* the hub goroutine is inside BroadcastToSession or BroadcastToSessionExcept
\* for session sid; c is the connection whose unregister it is in, or 0
InBroadcast(op, c, sid, exceptUserID, msgType) ==
    [op |-> op, c |-> c, sid |-> sid, except |-> exceptUserID,
     msgType |-> msgType]

\* Client.closeSendChannel: closes the outbound queue unless it is closed
closeSendChannel(ch, c) == [ch EXCEPT !.send[c].closed = TRUE]

\* create_session: no broadcast
lockCreateSession(c, code, hostID) ==
    /\ HubIdle
    /\ hubCreateSession(c, code, hostID)
    /\ UNCHANGED <<sweepVars, lockVars>>

\* join_session up to the call of BroadcastToSessionExcept
lockJoinSession(c, sessionCode, newID) ==
    /\ HubIdle
    /\ handleJoinSession(c, sessionCode, newID)
    /\ IF clients'[c] = clients[c]
       THEN /\ Sent(SendMessage(Channels, c, "error"))
            /\ UNCHANGED hubPc
       ELSE /\ Sent(SendMessage(Channels, c, "session_joined"))
            /\ hubPc' = InBroadcast("rlock", 0, clients'[c].sessionID, newID,
                                    "participant_joined")
    /\ UNCHANGED <<now, sweep, unregPending, callbacks, lockVars>>

\* start_writing up to the call of BroadcastToSession
lockStartWriting(c) ==
    /\ HubIdle
    /\ handleStartWriting(c)
    /\ IF heap' = heap
       THEN /\ Sent(SendMessage(Channels, c, "error"))
            /\ UNCHANGED hubPc
       ELSE /\ UNCHANGED <<send, panicked>>
            /\ hubPc' = InBroadcast("rlock", 0, clients[c].sessionID,
                                    NoParticipant, "phase_changed")
    /\ UNCHANGED <<now, sweep, unregPending, callbacks, lockVars>>

\* h.clientsMu.RLock() at the head of a broadcast: waits for the write lock
broadcastRLock ==
    /\ hubPc.op = "rlock"
    /\ clientsMu = "free"
    /\ clientsMu' = "R"
    /\ hubPc' = [hubPc EXCEPT !.op = "copy"]
    /\ UNCHANGED <<core, now, sweep, hubVars, snapshot>>

\* the copy of the client pointers, then h.clientsMu.RUnlock()
broadcastCopy ==
    /\ hubPc.op = "copy"
    /\ \E order \in GroupOrders(hubClients, hubPc.sid) :
           snapshot' = Except(clients, order, hubPc.except)
    /\ clientsMu' = "free"
    /\ hubPc' = [hubPc EXCEPT !.op = "send"]
    /\ UNCHANGED <<core, now, sweep, hubVars>>

\* `for _, client := range clients { client.SendMessage(message) }`, one
\* round, or the return to the caller
broadcastSend ==
    /\ hubPc.op = "send"
    /\ IF snapshot # <<>>
       THEN /\ Sent(SendMessage(Channels, Head(snapshot), hubPc.msgType))
            /\ snapshot' = Tail(snapshot)
            /\ UNCHANGED hubPc
       ELSE /\ hubPc' = IF hubPc.c = 0 THEN Idle
                        ELSE [op |-> "unlock", c |-> hubPc.c, sid |-> hubPc.sid]
            /\ UNCHANGED <<send, panicked, snapshot>>
    /\ UNCHANGED <<core, now, sweep, unregPending, callbacks, clientsMu>>

\* case client := <-h.register: Lock, insert, Unlock
lockRegister(c) ==
    /\ HubIdle /\ clientsMu = "free"
    /\ Register(c)
    /\ UNCHANGED aux

\* case client := <-h.unregister, up to the call of the disconnect handler:
\* Lock; for a member delete and closeSendChannel, otherwise Unlock
unregisterLock(c) ==
    /\ HubIdle /\ clientsMu = "free"
    /\ c \in unregPending
    /\ unregPending' = unregPending \ {c}
    /\ IF <<clients[c].sessionID, c>> \notin hubClients
       THEN UNCHANGED <<hubClients, send, panicked, clientsMu, hubPc>>
       ELSE /\ hubClients' = hubClients \ {<<clients[c].sessionID, c>>}
            /\ Sent(closeSendChannel(Channels, c))
            /\ clientsMu' = "W"
            /\ hubPc' = [op |-> "callback", c |-> c, sid |-> clients[c].sessionID]
    /\ UNCHANGED <<heap, sessions, sessionsByCode, usedIds, clients,
                   regPending, now, sweep, callbacks, snapshot>>

\* h.disconnectHandler(client), up to its call of BroadcastToSession or to
\* its return
unregisterCallback ==
    /\ hubPc.op = "callback"
    /\ callbacks' = [callbacks EXCEPT ![hubPc.c] = @ + 1]
    /\ HandleClientDisconnect(hubPc.c)
    /\ hubPc' = IF disconnectBroadcasts(hubPc.c)
                THEN InBroadcast("rlock", hubPc.c, hubPc.sid, NoParticipant,
                                 "participant_left")
                ELSE [hubPc EXCEPT !.op = "unlock"]
    /\ UNCHANGED <<usedIds, clients, hubClients, regPending, now, sweep,
                   unregPending, send, panicked, lockVars>>

\* the end of the unregister case: h.clientsMu.Unlock()
unregisterUnlock ==
    /\ hubPc.op = "unlock"
    /\ clientsMu' = "free"
    /\ hubPc' = Idle
    /\ UNCHANGED <<core, now, sweep, hubVars, snapshot>>

\* SpecLock: sessions are created, joined and started, streams close, and
\* the hub goroutine goes through its cases one lock operation at a time.
NextLock ==
    \/ \E c \in ClientIds, code \in GeneratedCodes, hostID \in Ids :
           /\ Alive /\ Sends(c) /\ Unbound(c) /\ InOrder(c)
           /\ Fresh(hostID) /\ code \notin DOMAIN sessionsByCode
           /\ lockCreateSession(c, code, hostID)
           /\ UNCHANGED inputVars
    \/ \E c \in ClientIds, code \in HubTypedCodes, newID \in Ids :
           /\ Alive /\ Sends(c) /\ Unbound(c) /\ InOrder(c)
           /\ Fresh(newID)
           /\ lockJoinSession(c, code, newID)
           /\ UNCHANGED inputVars
    \/ \E c \in ClientIds :
           Alive /\ Sends(c) /\ lockStartWriting(c) /\ UNCHANGED inputVars
    \/ Alive /\ broadcastRLock /\ UNCHANGED inputVars
    \/ Alive /\ broadcastCopy /\ UNCHANGED inputVars
    \/ Alive /\ broadcastSend /\ UNCHANGED inputVars
    \/ \E c \in ClientIds : Alive /\ lockRegister(c) /\ UNCHANGED inputVars
    \/ \E c \in ClientIds : Alive /\ unregisterLock(c) /\ UNCHANGED inputVars
    \/ Alive /\ unregisterCallback /\ UNCHANGED inputVars
    \/ Alive /\ unregisterUnlock /\ UNCHANGED inputVars
    \/ \E c \in ClientIds :
           Alive /\ InOrder(c) /\ readLoopEnds(c) /\ UNCHANGED besidesHub
    \/ \E c \in ClientIds :
           panicked = NoPanic /\ writePump(c) /\ UNCHANGED besidesHub

SpecLock == Init /\ [][NextLock]_vars

----------------------------------------------------------------------------
(* Properties *)

\* the sessions the registry still holds in one of its indexes
LiveIds == Live(sessions, sessionsByCode)

\* the position of a phase in the order JOINING, WRITING, READING, COMPLETE
PhaseRank(phase) ==
    CASE phase = PhaseJoining -> 0
      [] phase = PhaseWriting -> 1
      [] phase = PhaseReading -> 2
      [] phase = PhaseComplete -> 3

\* the participants with the host flag set
Hosts(s) == {id \in DOMAIN s.Participants : s.Participants[id].IsHost}

\* C1: under inbound messages and disconnects a session's phase only ever
\* stays or moves to its immediate successor in the order JOINING, WRITING,
\* READING, COMPLETE: never backward, never to a phase it has left, never
\* past a phase.
C1_PhaseMovesToSuccessor ==
    [][\A sid \in LiveIds :
          sid \in Live(sessions', sessionsByCode') =>
              \/ heap'[sid].Phase = heap[sid].Phase
              \/ PhaseRank(heap'[sid].Phase) = PhaseRank(heap[sid].Phase) + 1]_vars

\* C1 witness: a session has gone through every phase and is COMPLETE with
\* every note read
C1_Witness ==
    \E sid \in LiveIds :
        /\ heap[sid].Phase = PhaseComplete
        /\ Len(heap[sid].Notes) > 0
        /\ \A i \in 1..Len(heap[sid].Notes) : heap[sid].Notes[i].Read

\* every Session operation leaves the phase of s as it is
OperationsKeepPhase(s) ==
    /\ \A id \in Ids : AddParticipant(s, id).s.Phase = s.Phase
    /\ TransitionToWriting(s).s.Phase = s.Phase
    /\ \A a, r \in 0..MaxId : AddNote(s, a, r).s.Phase = s.Phase
    /\ TransitionToReading(s).s.Phase = s.Phase
    /\ \A noteID \in 0..Len(s.Notes) : MarkNoteAsRead(s, noteID).s.Phase = s.Phase
    /\ \A order \in MapOrders(s.Participants) : AdvanceTurn(s, order).Phase = s.Phase
    /\ \A id \in 0..MaxId : RemoveParticipant(s, id).s.Phase = s.Phase

\* C2: COMPLETE is terminal: on a COMPLETE session no Session operation
\* (AddParticipant, TransitionToWriting, AddNote, TransitionToReading,
\* MarkNoteAsRead, AdvanceTurn, RemoveParticipant) changes the phase, and no
\* inbound message or disconnect changes it either.
C2_CompleteIsTerminal ==
    /\ [](\A sid \in LiveIds :
             heap[sid].Phase = PhaseComplete => OperationsKeepPhase(heap[sid]))
    /\ [][\A sid \in LiveIds :
             /\ heap[sid].Phase = PhaseComplete
             /\ sid \in Live(sessions', sessionsByCode')
             => heap'[sid].Phase = PhaseComplete]_vars

\* C2 witness: a COMPLETE session that still has two participants and the
\* number of notes TransitionToReading expects, with both connections open
C2_Witness ==
    \E sid \in LiveIds :
        /\ heap[sid].Phase = PhaseComplete
        /\ NumParticipants(heap[sid]) >= 2
        /\ Len(heap[sid].Notes) = ExpectedNotes(heap[sid])
        /\ \A id \in DOMAIN heap[sid].Participants :
               \E c \in ClientIds : clients[c] = [sessionID |-> sid, userID |-> id,
                                                  conn |-> "open"]

\* C3: after every handling step, a session whose roster is not empty has
\* exactly one participant with the host flag set and its HostID is that
\* participant's id; removing the last participant leaves an empty roster,
\* in which nobody is host.
C3_ExactlyOneHost ==
    \A sid \in LiveIds :
        LET s == heap[sid]
        IN  /\ NumParticipants(s) > 0 =>
                   /\ Cardinality(Hosts(s)) = 1
                   /\ s.HostID \in Hosts(s)
                   /\ s.Participants[s.HostID].ID = s.HostID
            /\ \A id \in DOMAIN s.Participants :
                   NumParticipants(s) = 1 =>
                       LET r == RemoveParticipant(s, id).s
                       IN  NumParticipants(r) = 0 /\ Hosts(r) = {}

\* C3 witness: the creator of the first session (its id is 1) has left and
\* another participant is host, with a third participant beside it
C3_Witness ==
    /\ 1 \in LiveIds
    /\ 1 \notin DOMAIN heap[1].Participants
    /\ NumParticipants(heap[1]) = 2
    /\ heap[1].HostID \in DOMAIN heap[1].Participants
    /\ heap[1].Participants[heap[1].HostID].IsHost

\* C4: the id index and the code index describe the same sessions: a
\* session is resolved by GetSessionByID exactly when GetSessionByCode with
\* its join code resolves to that same session, and a removed session is
\* resolved by neither.
C4_IndexesAgree ==
    /\ \A sid \in LiveIds :
           (GetSessionByID(sid) = sid) <=> (GetSessionByCode(heap[sid].Code) = sid)
    /\ \A sid \in (DOMAIN heap) \ LiveIds :
           /\ GetSessionByID(sid) = NoSession
           /\ \A code \in DOMAIN sessionsByCode : sessionsByCode[code] # sid

\* C4 witness: two sessions were created and the first of them has been
\* removed
C4_Witness ==
    /\ Len(heap) = 2
    /\ 1 \notin LiveIds
    /\ 2 \in LiveIds

\* the notes of s written by a to b
NotesOfPair(s, a, b) ==
    {i \in 1..Len(s.Notes) : s.Notes[i].AuthorID = a /\ s.Notes[i].RecipientID = b}

\* every ordered pair of distinct participants of s has exactly one note
EveryPairOnce(s) ==
    \A a, b \in DOMAIN s.Participants :
        a # b => Cardinality(NotesOfPair(s, a, b)) = 1

TransitionToReadingSucceeds(s) ==
    s.Phase = PhaseWriting /\ Len(s.Notes) = ExpectedNotes(s)

\* C5: TransitionToReading succeeds if and only if the phase is WRITING and
\* the number of notes is N * (N - 1) for the N current participants; it
\* then moves the phase to READING and changes nothing else; in every other
\* case it fails and leaves the session as it was.
C5_TransitionToReadingIff ==
    \A sid \in LiveIds :
        LET s == heap[sid]
            r == TransitionToReading(s)
        IN  /\ (r.err = Nil) <=> TransitionToReadingSucceeds(s)
            /\ r.err = Nil => r.s = [s EXCEPT !.Phase = PhaseReading]
            /\ r.err # Nil => r.s = s

\* C5 witness: a session at rest in WRITING on which TransitionToReading
\* would succeed (a removal brought the expected count down to the count),
\* while another state has more notes than expected
C5_Witness ==
    \E sid \in LiveIds :
        /\ TransitionToReadingSucceeds(heap[sid])
        /\ NumParticipants(heap[sid]) = 2
        /\ TransitionToReading(heap[sid]).s.Phase = PhaseReading

\* C6: whenever TransitionToReading succeeds in a handling step, every
\* ordered pair of distinct current participants has exactly one note from
\* the first to the second.
C6_ReadingStartsWithEveryPair ==
    [][\A sid \in LiveIds :
          /\ sid \in Live(sessions', sessionsByCode')
          /\ heap[sid].Phase = PhaseWriting
          /\ heap'[sid].Phase = PhaseReading
          => EveryPairOnce(heap'[sid])]_vars

SortedRoster(s) ==
    CHOOSE seq \in [1..NumParticipants(s) -> DOMAIN s.Participants] :
        \A i, j \in 1..NumParticipants(s) : i < j => seq[i] < seq[j]

\* the notes a reader may draw: unread, not written by the reader and, with
\* more than two participants, not addressed to the reader
AvailableSet(s, readerID) ==
    {i \in 1..Len(s.Notes) :
        /\ ~s.Notes[i].Read
        /\ s.Notes[i].AuthorID # readerID
        /\ NumParticipants(s) > 2 => s.Notes[i].RecipientID # readerID}

\* the participant the turn counter points at once it has moved j further
ReaderAfter(s, j) ==
    SortedRoster(s)[((s.CurrentTurn + j) % NumParticipants(s)) + 1]

\* the increments after which the reader has a note to draw
StoppingPoints(s) ==
    {j \in 1..NumParticipants(s) : AvailableSet(s, ReaderAfter(s, j)) # {}}

\* the least element of a non-empty set of numbers
Least(S) == CHOOSE x \in S : \A y \in S : x <= y

\* C8: on a session with N >= 1 participants AdvanceTurn adds k to the turn
\* counter, k being the first of 1..N for which the participant at sorted
\* index (counter mod N) has an available note, and leaves the phase (and
\* everything else) as it was; when no such k exists it adds exactly N and
\* sets the phase to COMPLETE and records the completion time, unread notes
\* or not.
C8_AdvanceTurnStopsAtFirstReader ==
    \A sid \in LiveIds :
        LET s == heap[sid]
        IN  NumParticipants(s) >= 1 =>
                \A order \in MapOrders(s.Participants) :
                    AdvanceTurn(s, order) =
                        IF StoppingPoints(s) # {}
                        THEN [s EXCEPT !.CurrentTurn = @ + Least(StoppingPoints(s))]
                        ELSE [s EXCEPT !.CurrentTurn = @ + NumParticipants(s),
                                       !.Phase = PhaseComplete,
                                       !.CompletedAt = IF @ = NoTime THEN now ELSE @]

\* C8 witness: a session of three in READING where the next participant in
\* sorted order has nothing to draw and a later one has, so that AdvanceTurn
\* adds more than 1 and stops
C8_Witness ==
    \E sid \in LiveIds :
        /\ heap[sid].Phase = PhaseReading
        /\ NumParticipants(heap[sid]) = 3
        /\ StoppingPoints(heap[sid]) # {}
        /\ Least(StoppingPoints(heap[sid])) > 1
        /\ \E order \in MapOrders(heap[sid].Participants) :
               /\ AdvanceTurn(heap[sid], order).Phase = PhaseReading
               /\ AdvanceTurn(heap[sid], order).CurrentTurn > heap[sid].CurrentTurn + 1

\* the elements of a sequence
Range(seq) == {seq[i] : i \in 1..Len(seq)}

\* C9: for every reader and every state GetAvailableNotesForReader returns
\* exactly the unread notes not written by the reader and, with more than 2
\* participants, not addressed to the reader, each of them once; with
\* exactly 2 participants an unread note addressed to the reader and
\* written by the other one is returned.
C9_AvailableNotes ==
    \A sid \in LiveIds : \A readerID \in 0..MaxId :
        LET s == heap[sid]
            got == GetAvailableNotesForReader(s, readerID)
        IN  /\ Range(got) = AvailableSet(s, readerID)
            /\ Len(got) = Cardinality(Range(got))
            /\ NumParticipants(s) = 2 =>
                   \A i \in 1..Len(s.Notes) :
                       /\ ~s.Notes[i].Read
                       /\ s.Notes[i].RecipientID = readerID
                       /\ s.Notes[i].AuthorID # readerID
                       => i \in Range(got)

\* C9 witness: with three participants a reader has an unread note
\* addressed to it, which it is not offered, and another note it is offered
C9_Witness ==
    \E sid \in LiveIds : \E readerID \in DOMAIN heap[sid].Participants :
        LET s == heap[sid]
            got == GetAvailableNotesForReader(s, readerID)
        IN  /\ NumParticipants(s) = 3
            /\ s.Phase = PhaseReading
            /\ Len(got) > 0
            /\ \E i \in 1..Len(s.Notes) :
                   /\ ~s.Notes[i].Read
                   /\ s.Notes[i].RecipientID = readerID
                   /\ i \notin Range(got)

\* C10: GetCurrentReader returns nobody when the phase is not READING or
\* the roster is empty; in READING it returns the participant at index
\* (CurrentTurn mod N) of the roster sorted by id, whatever the order in
\* which the roster map was visited.
C10_CurrentReaderBySortedIndex ==
    \A sid \in LiveIds :
        LET s == heap[sid]
        IN  \A order \in MapOrders(s.Participants) :
                GetCurrentReader(s, order) =
                    IF s.Phase # PhaseReading \/ NumParticipants(s) = 0
                    THEN NoParticipant
                    ELSE SortedRoster(s)[(s.CurrentTurn % NumParticipants(s)) + 1]

\* C10 witness: a session of three in READING whose turn counter has gone
\* round the roster and points at a participant other than the first
C10_Witness ==
    \E sid \in LiveIds :
        /\ heap[sid].Phase = PhaseReading
        /\ NumParticipants(heap[sid]) = 3
        /\ heap[sid].CurrentTurn > 3
        /\ heap[sid].CurrentTurn % 3 # 0
        /\ \E order \in MapOrders(heap[sid].Participants) :
               /\ order # SortedRoster(heap[sid])
               /\ GetCurrentReader(heap[sid], order) # NoParticipant

\* the roster of s as one order in which the map may be visited
RosterOrder(s) == Ascending(DOMAIN s.Participants)

\* One round of the reading loop as handleNoteRead and handleDrawNote play
\* it: the current reader marks one of the notes it may draw, when it has
\* one, and AdvanceTurn is called.  ReachesCompleteWithin(s, k) says that
\* every choice of notes brings s to COMPLETE with at most k calls.
RECURSIVE ReachesCompleteWithin(_, _)
ReachesCompleteWithin(s, k) ==
    IF s.Phase = PhaseComplete THEN TRUE
    ELSE IF k = 0 THEN FALSE
    ELSE LET reader == GetCurrentReader(s, RosterOrder(s))
             available == Range(GetAvailableNotesForReader(s, reader))
         IN  IF available = {}
             THEN ReachesCompleteWithin(AdvanceTurn(s, RosterOrder(s)), k - 1)
             ELSE \A noteID \in available :
                      ReachesCompleteWithin(
                          AdvanceTurn(MarkNoteAsRead(s, noteID).s, RosterOrder(s)),
                          k - 1)

\* C11: in READING with N >= 2 participants, calls of AdvanceTurn each of
\* which follows the current reader marking one of its available notes read
\* reach COMPLETE after at most as many calls as there are notes (one call
\* more when the first reader has nothing to draw and the turn is advanced
\* without a mark), and no call adds more than N to the turn counter.
C11_ReadingTerminates ==
    \A sid \in LiveIds :
        LET s == heap[sid]
            reader == GetCurrentReader(s, RosterOrder(s))
        IN  s.Phase = PhaseReading /\ NumParticipants(s) >= 2 =>
                /\ GetAvailableNotesForReader(s, reader) # <<>> =>
                       ReachesCompleteWithin(s, Len(s.Notes))
                /\ ReachesCompleteWithin(s, Len(s.Notes) + 1)
                /\ \A order \in MapOrders(s.Participants) :
                       AdvanceTurn(s, order).CurrentTurn - s.CurrentTurn
                           <= NumParticipants(s)

\* C11 witness: a session of three that went through all of its six notes,
\* one call of AdvanceTurn per note, and is COMPLETE
C11_Witness ==
    \E sid \in LiveIds :
        /\ heap[sid].Phase = PhaseComplete
        /\ NumParticipants(heap[sid]) = 3
        /\ Len(heap[sid].Notes) = 6
        /\ \A i \in 1..6 : heap[sid].Notes[i].Read

CodesDistinct ==
    \A a, b \in sessions :
        a # b => NormalizeCode(heap[a].Code) # NormalizeCode(heap[b].Code)

\* a session nobody is in
Abandoned(s) == NumParticipants(s) = 0
\* a session completed more than the retention time before `at`
Expired(s, at) ==
    /\ s.Phase = PhaseComplete
    /\ s.CompletedAt # NoTime
    /\ at - s.CompletedAt > Retention

\* the step is one iteration of the sweep's loop over sessionID
Examines(sessionID) ==
    /\ sweep.run /\ sweep'.run
    /\ sessionID \in sweep.todo /\ sessionID \notin sweep'.todo

\* the step is the sweep's pair of deletes
Deletes == sweep.run /\ sweep.victim # 0 /\ sweep'.victim = 0

\* C19: a sweep pass removes exactly the sessions that have no participant
\* or are COMPLETE with a completion time more than one hour old, and every
\* other session, resolvable by id and by code before the pass removes a
\* session, is still resolvable by id and by code afterwards.
C19_SweepRemovesExactly ==
    /\ [][\A sessionID \in SessionIds :
              Examines(sessionID) =>
                  IF Abandoned(heap[sessionID]) \/ Expired(heap[sessionID], sweep.at)
                  THEN sweep'.victim = sessionID
                  ELSE sweep'.victim = 0]_vars
    /\ [][Deletes =>
              /\ GetSessionByID(sweep.victim) = sweep.victim
              /\ sweep.victim \notin sessions'
              /\ \A code \in DOMAIN sessionsByCode' :
                     sessionsByCode'[code] # sweep.victim
              /\ \A other \in sessions \ {sweep.victim} :
                     /\ other \in sessions'
                     /\ GetSessionByCode(heap[other].Code) = other =>
                            /\ NormalizeCode(heap[other].Code)
                                   \in DOMAIN sessionsByCode'
                            /\ sessionsByCode'[NormalizeCode(heap[other].Code)]
                                   = other]_vars

\* C19 witness: a pass is about to delete a session completed more than an
\* hour ago while another session, with a participant and not COMPLETE, is
\* registered
C19_Witness ==
    /\ sweep.run
    /\ sweep.victim # 0
    /\ Expired(heap[sweep.victim], sweep.at)
    /\ \E other \in sessions \ {sweep.victim} :
           /\ NumParticipants(heap[other]) > 0
           /\ heap[other].Phase # PhaseComplete

\* What the sweep guarantees while no two registered sessions share a join
\* code: the statement of C19 with the deletes looked at in those states
\* only.
SweepRemovesExactlyGivenDistinctCodes ==
    /\ [][\A sessionID \in SessionIds :
              Examines(sessionID) =>
                  IF Abandoned(heap[sessionID]) \/ Expired(heap[sessionID], sweep.at)
                  THEN sweep'.victim = sessionID
                  ELSE sweep'.victim = 0]_vars
    /\ [][Deletes /\ CodesDistinct =>
              /\ GetSessionByID(sweep.victim) = sweep.victim
              /\ sweep.victim \notin sessions'
              /\ \A code \in DOMAIN sessionsByCode' :
                     sessionsByCode'[code] # sweep.victim
              /\ \A other \in sessions \ {sweep.victim} :
                     /\ other \in sessions'
                     /\ GetSessionByCode(heap[other].Code) = other =>
                            /\ NormalizeCode(heap[other].Code)
                                   \in DOMAIN sessionsByCode'
                            /\ sessionsByCode'[NormalizeCode(heap[other].Code)]
                                   = other]_vars

\* the step is the second half of a join_session and adds a participant
JoinSucceeds ==
    /\ hubPc.op = "join" /\ hubPc' = Idle
    /\ clients'[hubPc.c].sessionID = hubPc.sid

\* C20: in every interleaving of a sweep pass with a join (GetSessionByCode,
\* then AddParticipant), a join that succeeds leaves its participant in a
\* session the registry still holds, and the sweep never deletes as
\* abandoned a session that has a participant.
C20_SweepDoesNotRaceJoin ==
    /\ [][JoinSucceeds =>
              /\ hubPc.sid \in sessions'
              /\ clients'[hubPc.c].userID \in DOMAIN heap'[hubPc.sid].Participants
              /\ ~(sweep.run /\ sweep.victim = hubPc.sid)]_vars
    /\ [][Deletes /\ sweep.reason = "abandoned (no participants)" =>
              NumParticipants(heap[sweep.victim]) = 0]_vars

\* C20 witness: a join has found its session and not yet added the
\* participant while a sweep pass, which has already examined that session,
\* is under way
C20_Witness ==
    /\ hubPc.op = "join"
    /\ sweep.run
    /\ hubPc.sid \in sessions
    /\ hubPc.sid \notin sweep.todo
    /\ heap[hubPc.sid].Phase = PhaseJoining

----------------------------------------------------------------------------
(* SpecHubFair: SpecHub with the scheduling the Go runtime provides: a     *)
(* goroutine blocked on the register or unregister channel is eventually   *)
(* received from by the hub's select, and a write loop with something to   *)
(* do eventually runs.                                                     *)
(***************************************************************************)
HubFairness ==
    \A c \in ClientIds :
        /\ WF_vars(Alive /\ Register(c) /\ UNCHANGED aux)
        /\ WF_vars(Alive /\ hubUnregister(c) /\ UNCHANGED besidesHub)
        /\ WF_vars(panicked = NoPanic /\ writePump(c) /\ UNCHANGED besidesHub)

SpecHubFair == SpecHub /\ HubFairness

\* connection c was destroyed after it created or joined a session
Destroyed(c) ==
    clients[c].conn # "open" /\ clients[c].sessionID # NoSession

\* the participant of c is on the roster of c's session
OnRoster(c) ==
    /\ clients[c].sessionID \in sessions
    /\ clients[c].userID \in DOMAIN Sess(clients[c].sessionID).Participants

\* C13: in a process that stays alive, the participant of a destroyed
\* connection that had created or joined a session is eventually off that
\* session's roster, whatever the order in which the hub receives the
\* register request and the unregister request.
C13_DestroyedIsRemoved ==
    \A c \in ClientIds : Destroyed(c) ~> (~OnRoster(c) \/ panicked # NoPanic)

\* the hub took the unregister request of a destroyed connection before its
\* register request: the connection is in its group for good, no request is
\* in flight and its participant is still on the roster
C13_Witness ==
    \E c \in ClientIds :
        /\ Destroyed(c) /\ OnRoster(c) /\ panicked = NoPanic
        /\ c \notin regPending /\ c \notin unregPending
        /\ <<clients[c].sessionID, c>> \in hubClients

\* the hub takes the unregister request of c in this step
Unregisters(c) == c \in unregPending /\ c \notin unregPending'

\* c is in the group of its session
Member(c) == <<clients[c].sessionID, c>> \in hubClients

\* what the unregister case does for c: a member leaves its group, its
\* callback runs for the first and only time and sends nothing to c itself;
\* for a connection that is not a member the callback does not run
UnregisterEffect(c) ==
    IF Member(c)
    THEN /\ <<clients[c].sessionID, c>> \notin hubClients'
         /\ callbacks[c] = 0 /\ callbacks'[c] = 1
         /\ send'[c].buf = send[c].buf
    ELSE /\ callbacks'[c] = callbacks[c]
         /\ hubClients' = hubClients

\* C14: unregister removes a registered connection from its group and runs
\* the disconnect callback exactly once for it, after the removal (the
\* callback's broadcast does not reach the connection itself); an unregister
\* of a connection that is not, or no longer, in its group does not run the
\* callback.
C14_UnregisterCallsBackOnce ==
    /\ [](\A c \in ClientIds : callbacks[c] <= 1)
    /\ [][\A c \in ClientIds : Unregisters(c) => UnregisterEffect(c)]_vars

\* the callback of a connection has run while another connection is still
\* in the group; the connection itself is out of the group
C14_Witness ==
    \E c \in ClientIds :
        /\ callbacks[c] = 1 /\ ~Member(c) /\ panicked = NoPanic
        /\ Group(hubClients, clients[c].sessionID) # {}

\* the same, for the connections whose outbound queue SendMessage has not
\* closed before the unregister
UnregisterCallsBackOnceUnlessClosed ==
    /\ [](\A c \in ClientIds : callbacks[c] <= 1)
    /\ [][\A c \in ClientIds :
            Unregisters(c) /\ ~send[c].closed => UnregisterEffect(c)]_vars

\* channels r are the channels of this state after one SendMessage of
\* msgType to every connection of targets and to no other connection
Delivered(r, targets, msgType) ==
    \A c \in ClientIds :
        r.send[c] = IF c \in targets
                    THEN SendMessage(Channels, c, msgType).send[c]
                    ELSE send[c]

\* the members of the group whose userID is not exceptUserID
Others(sessionID, exceptUserID) ==
    {c \in Group(hubClients, sessionID) : clients[c].userID # exceptUserID}

\* the three sends of the hub reach the connections they are meant for, in
\* the group of sessionID as it is in this state
Targets(sessionID) ==
    \A order \in GroupOrders(hubClients, sessionID) :
        /\ Delivered(BroadcastToSession(Channels, order, "note"),
                     Group(hubClients, sessionID), "note")
        /\ \A userID \in Ids :
               /\ Delivered(BroadcastToSessionExcept(Channels, clients, order,
                                                     userID, "note"),
                            Others(sessionID, userID), "note")
               /\ \E to \in SUBSET (Group(hubClients, sessionID)
                                        \ Others(sessionID, userID)) :
                      /\ Cardinality(to) <= 1
                      /\ Delivered(SendToUser(Channels, clients, order,
                                              userID, "note"), to, "note")

\* C15: BroadcastToSession sends to exactly the connections in the group of
\* the session and to no connection of another session,
\* BroadcastToSessionExcept to exactly those of them whose userID is not the
\* excluded one, SendToUser to at most one connection of the group, one whose
\* userID matches.
C15_SendsReachTheGroup ==
    panicked = NoPanic => \A sessionID \in SessionIds : Targets(sessionID)

\* two connections are in the group of one session and a third is in the
\* group of another
C15_Witness ==
    /\ panicked = NoPanic
    /\ \E sessionID, other \in SessionIds :
           /\ sessionID # other
           /\ Cardinality(Group(hubClients, sessionID)) = 2
           /\ Group(hubClients, other) # {}

\* the same, for the groups none of whose connections has a closed queue
SendsReachTheGroupUnlessClosed ==
    panicked = NoPanic =>
        \A sessionID \in SessionIds :
            (\A c \in Group(hubClients, sessionID) : ~send[c].closed)
                => Targets(sessionID)

\* SendMessage of msgType to c in this state does what the select on a
\* buffered channel is meant to do: with room in the queue the payload goes
\* to its end; with a full queue the payload is dropped and the queue is
\* closed; the queues of the other connections are as they were
SendEffect(c, msgType) ==
    LET r == SendMessage(Channels, c, msgType)
    IN  /\ r.panicked = NoPanic
        /\ \A d \in ClientIds \ {c} : r.send[d] = send[d]
        /\ IF Len(send[c].buf) < SendCap
           THEN r.send[c] = [send[c] EXCEPT !.buf = Append(@, msgType)]
           ELSE r.send[c] = [send[c] EXCEPT !.closed = TRUE]

\* a broadcast to the group of sessionID reaches every member whose queue
\* has room, whatever the state of the queues of the other members
BroadcastPassesStalled(sessionID) ==
    \A order \in GroupOrders(hubClients, sessionID) :
        LET r == BroadcastToSession(Channels, order, "note")
        IN  \A c \in Group(hubClients, sessionID) :
                (~send[c].closed /\ Len(send[c].buf) < SendCap)
                    => r.send[c].buf = Append(send[c].buf, "note")

\* C17: SendMessage does not wait for room in the queue: a payload is
\* appended when the queue has room, and dropped with the queue closed when
\* it is full; a broadcast therefore reaches the other members of a group
\* with a stalled peer.
C17_SendNeverBlocks ==
    panicked = NoPanic =>
        /\ \A c \in ClientIds : SendEffect(c, "note")
        /\ \A sessionID \in SessionIds : BroadcastPassesStalled(sessionID)

\* a group with a peer whose queue is full and still open, and another
\* member whose queue has room
C17_Witness ==
    /\ panicked = NoPanic
    /\ \E sessionID \in SessionIds :
       \E c, d \in Group(hubClients, sessionID) :
           /\ ~send[c].closed /\ Len(send[c].buf) = SendCap
           /\ ~send[d].closed /\ Len(send[d].buf) < SendCap

\* the same, for the queues that are not closed
SendNeverBlocksUnlessClosed ==
    panicked = NoPanic =>
        /\ \A c \in ClientIds : ~send[c].closed => SendEffect(c, "note")
        /\ \A sessionID \in SessionIds :
               (\A c \in Group(hubClients, sessionID) : ~send[c].closed)
                   => BroadcastPassesStalled(sessionID)

\* C18: nothing ends the process: no outbound queue is closed twice and
\* nothing is sent on a queue after it is closed.
C18_NoFatalCondition == panicked = NoPanic

\* a queue that SendMessage closed on overflow while its connection is in a
\* group: the next send to the group or the connection's unregister meets a
\* closed queue
C18_Witness ==
    \E c \in ClientIds :
        /\ panicked = NoPanic /\ send[c].closed
        /\ <<clients[c].sessionID, c>> \in hubClients

\* the hub goroutine is about to call SendMessage for a copied client
Sending == hubPc.op = "send" /\ snapshot # <<>>

\* the hub goroutine has entered one of the sending functions of the Hub
\* and stands at its RLock
Entering == hubPc.op = "rlock"

\* C16: the hub sends with the membership lock released: at every
\* SendMessage of its three sending functions clientsMu is free, and the
\* disconnect callback's participant_left broadcast, like every other, is
\* entered with clientsMu free.
C16_NoSendUnderLock == (Sending \/ Entering) => clientsMu = "free"

\* the hub is inside the disconnect callback of a connection whose session
\* keeps other participants, at the RLock of the participant_left broadcast
C16_Witness ==
    /\ Entering /\ hubPc.c # 0 /\ hubPc.msgType = "participant_left"
    /\ Group(hubClients, hubPc.sid) # {}

\* the same, for the sends of the handlers
HandlersSendUnlocked ==
    ((Sending \/ Entering) /\ hubPc.c = 0) => clientsMu = "free"

\* no participant_left is ever sent: the hub goroutine waits at the RLock of
\* the callback's broadcast for the write lock it holds itself
CallbackNeverSends ==
    /\ ~(Sending /\ hubPc.msgType = "participant_left")
    /\ [][hubPc.op = "rlock" /\ hubPc.c # 0 => hubPc' = hubPc]_vars

\* the sessions that GetSessionByCode resolves with their own join code
ByOwnCode == {sid \in sessions : GetSessionByCode(heap[sid].Code) = sid}

\* C21: no two sessions in the registry have the same normalized join code,
\* and a step that adds a session to the registry leaves every session that
\* was resolved by its code resolved by its code.
C21_CodesUnique ==
    /\ [](\A sid, other \in sessions :
              sid # other =>
                  NormalizeCode(heap[sid].Code) # NormalizeCode(heap[other].Code))
    /\ [][sessions \subseteq sessions' /\ sessions' # sessions
              => ByOwnCode \subseteq ByOwnCode']_vars

\* two sessions with the same normalized join code are in the registry and
\* the older one is no longer resolved by its code
C21_Witness ==
    /\ sessions = {1, 2}
    /\ NormalizeCode(heap[1].Code) = NormalizeCode(heap[2].Code)
    /\ GetSessionByCode(heap[1].Code) = 2

\* the letters of join codes, in both cases
CodeLetters == {"A", "a", "B", "b", "C", "c"}

\* the strings that differ from code in the case of letters only
Casings(code) ==
    {typed \in [1..Len(code) -> CodeLetters] :
        \A i \in 1..Len(code) : ToUpperChar(typed[i]) = ToUpperChar(code[i])}

\* GetSessionByCode resolves session sid for every casing of its join code
ResolvedInAnyCase(sid) ==
    \A typed \in Casings(heap[sid].Code) : GetSessionByCode(typed) = sid

\* GetSessionByCode fails for the typed codes that are no session's code
UnknownNotFound ==
    \A typed \in TypedCodes \cup UNION {Casings(code) : code \in GeneratedCodes} :
        (\A sid \in sessions :
             NormalizeCode(typed) # NormalizeCode(heap[sid].Code))
            => GetSessionByCode(typed) = NoSession

\* C22: GetSessionByCode resolves every session of the registry for every
\* casing of its join code, and fails with "session not found" for a code
\* that is no registered session's code under case folding.
C22_LookupIgnoresCase ==
    /\ \A sid \in sessions : ResolvedInAnyCase(sid)
    /\ UnknownNotFound

\* two sessions with different codes are in the registry, and a lower-case
\* spelling of a code differs from the code
C22_Witness ==
    /\ sessions = {1, 2}
    /\ NormalizeCode(heap[1].Code) # NormalizeCode(heap[2].Code)
    /\ \E typed \in Casings(heap[1].Code) : typed # heap[1].Code

\* the same, for the sessions whose code entry no other session has taken
LookupIgnoresCaseUnlessCollision ==
    /\ \A sid \in ByOwnCode : ResolvedInAnyCase(sid)
    /\ UnknownNotFound

\* what AddParticipant does to session s when generateID returns newID
AddParticipantContract(s, newID) ==
    LET r == AddParticipant(s, newID)
    IN  /\ (r.err = Nil) <=> (s.Phase = PhaseJoining)
        /\ r.err = Nil =>
               /\ newID \notin DOMAIN s.Participants
               /\ DOMAIN r.s.Participants = DOMAIN s.Participants \cup {newID}
               /\ r.s.Participants[newID] = [ID |-> newID, IsHost |-> FALSE]
               /\ \A id \in DOMAIN s.Participants :
                      r.s.Participants[id] = s.Participants[id]
               /\ r.ret = newID
               /\ r.s = [s EXCEPT !.Participants = r.s.Participants]
        /\ r.err # Nil => r.s = s

\* C23: AddParticipant succeeds exactly in the joining phase; it then adds
\* one participant, not a host, under an id no participant of the session
\* has, and leaves the others as they are; in every other phase it fails and
\* the session is unchanged.
C23_AddParticipantOnlyWhileJoining ==
    \A sid \in sessions : \A newID \in Ids \ usedIds :
        AddParticipantContract(heap[sid], newID)

\* a participant has joined a session that has started since, and generateID
\* has an id left for a late joiner
C23_Witness ==
    /\ usedIds # Ids
    /\ \E sid \in sessions :
           /\ heap[sid].Phase # PhaseJoining
           /\ \E id \in DOMAIN heap[sid].Participants :
                  ~heap[sid].Participants[id].IsHost

\* what TransitionToWriting does to session s
TransitionToWritingContract(s) ==
    LET r == TransitionToWriting(s)
    IN  /\ (r.err = Nil) <=>
               (s.Phase = PhaseJoining /\ Cardinality(DOMAIN s.Participants) >= 2)
        /\ r.err = Nil => r.s = [s EXCEPT !.Phase = PhaseWriting]
        /\ r.err # Nil => r.s = s

\* C24: TransitionToWriting succeeds exactly when the phase is JOINING and
\* the session has at least 2 participants; the phase is then WRITING and
\* nothing else has changed; otherwise it fails and the session is unchanged.
C24_StartWritingNeedsTwo ==
    \A sid \in sessions : TransitionToWritingContract(heap[sid])

\* one session has entered the writing phase and another is still joining
\* with its host alone
C24_Witness ==
    \E sid, other \in sessions :
        /\ heap[sid].Phase = PhaseWriting
        /\ heap[other].Phase = PhaseJoining
        /\ Cardinality(DOMAIN heap[other].Participants) = 1

\* AddNote has to refuse a note from authorID to recipientID in session s
NoteRefused(s, authorID, recipientID) ==
    \/ s.Phase # PhaseWriting
    \/ authorID \notin DOMAIN s.Participants
    \/ recipientID \notin DOMAIN s.Participants
    \/ authorID = recipientID
    \/ \E i \in DOMAIN s.Notes :
           s.Notes[i].AuthorID = authorID /\ s.Notes[i].RecipientID = recipientID

\* what AddNote does to session s
AddNoteContract(s, authorID, recipientID) ==
    LET r == AddNote(s, authorID, recipientID)
    IN  IF NoteRefused(s, authorID, recipientID)
        THEN r.err # Nil /\ r.s = s
        ELSE /\ r.err = Nil
             /\ Len(r.s.Notes) = Len(s.Notes) + 1
             /\ SubSeq(r.s.Notes, 1, Len(s.Notes)) = s.Notes
             /\ r.s.Notes[Len(r.s.Notes)] =
                    [AuthorID |-> authorID, RecipientID |-> recipientID,
                     Read |-> FALSE]
             /\ r.s = [s EXCEPT !.Notes = r.s.Notes]

\* C25: AddNote fails and leaves the notes as they are when the phase is not
\* WRITING, when the author or the recipient is not a participant, when they
\* are the same, or when the author has a note to the recipient already; in
\* every other case it appends one unread note from the author to the
\* recipient.
C25_AddNoteContract ==
    \A sid \in sessions : \A authorID, recipientID \in Ids :
        AddNoteContract(heap[sid], authorID, recipientID)

\* a session in the writing phase holds a note, a pair without a note is
\* left, and an id is not on the roster
C25_Witness ==
    \E sid \in sessions :
        /\ heap[sid].Phase = PhaseWriting
        /\ heap[sid].Notes # <<>>
        /\ Ids \ DOMAIN heap[sid].Participants # {}
        /\ \E authorID, recipientID \in DOMAIN heap[sid].Participants :
               ~NoteRefused(heap[sid], authorID, recipientID)

\* what RemoveParticipant does to session s
RemoveParticipantContract(s, participantID) ==
    LET r == RemoveParticipant(s, participantID)
    IN  IF participantID \in DOMAIN s.Participants
        THEN /\ r.err = Nil /\ r.ret = participantID
             /\ DOMAIN r.s.Participants = DOMAIN s.Participants \ {participantID}
             /\ \A id \in DOMAIN r.s.Participants :
                    r.s.Participants[id] = s.Participants[id]
             /\ r.s.Phase = s.Phase /\ r.s.HostID = s.HostID
             /\ r.s.Notes = s.Notes /\ r.s.CurrentTurn = s.CurrentTurn
             /\ r.s = [s EXCEPT !.Participants = r.s.Participants]
        ELSE r.err = "participant not found" /\ r.s = s

\* C26: RemoveParticipant is accepted in every phase: for an id on the
\* roster it removes that participant and nothing else (phase, HostID, the
\* others' host flags, notes and turn counter stay); for any other id it
\* fails with "participant not found" and changes nothing.
C26_RemoveParticipantFrame ==
    \A sid \in sessions : \A participantID \in Ids :
        RemoveParticipantContract(heap[sid], participantID)

\* a participant was removed from a session in the reading phase: the
\* session holds a note of an author who is no longer on the roster, and
\* two participants are left
C26_Witness ==
    \E sid \in sessions :
        /\ heap[sid].Phase = PhaseReading
        /\ Cardinality(DOMAIN heap[sid].Participants) = 2
        /\ \E i \in DOMAIN heap[sid].Notes :
               heap[sid].Notes[i].AuthorID \notin DOMAIN heap[sid].Participants

\* session after is what AdvanceTurn leaves behind when called on session s,
\* or on s after MarkNoteAsRead
Advanced(s, after) ==
    \E order \in MapOrders(s.Participants) :
        \/ after = AdvanceTurn(s, order)
        \/ \E noteID \in 0..Len(s.Notes) :
               after = AdvanceTurn(MarkNoteAsRead(s, noteID).s, order)

\* the methods of Session other than AdvanceTurn leave the turn counter of s
\* alone
TurnKept(s) ==
    /\ \A id \in Ids :
           /\ AddParticipant(s, id).s.CurrentTurn = s.CurrentTurn
           /\ RemoveParticipant(s, id).s.CurrentTurn = s.CurrentTurn
           /\ \A other \in Ids : AddNote(s, id, other).s.CurrentTurn = s.CurrentTurn
    /\ TransitionToWriting(s).s.CurrentTurn = s.CurrentTurn
    /\ TransitionToReading(s).s.CurrentTurn = s.CurrentTurn
    /\ \A noteID \in 0..Len(s.Notes) :
           MarkNoteAsRead(s, noteID).s.CurrentTurn = s.CurrentTurn

\* C27: the turn counter of a session is 0 when the session is created, no
\* step lowers it, and a step that changes it is a call of AdvanceTurn.
C27_TurnCounterMonotonic ==
    /\ [](\A sid \in sessions : heap[sid].CurrentTurn >= 0 /\ TurnKept(heap[sid]))
    /\ [][\A sid \in sessions' :
             IF sid \in sessions
             THEN /\ heap'[sid].CurrentTurn >= heap[sid].CurrentTurn
                  /\ heap'[sid].CurrentTurn # heap[sid].CurrentTurn
                         => Advanced(heap[sid], heap'[sid])
             ELSE heap'[sid].CurrentTurn = 0]_vars

\* a session whose turn counter has passed the size of its roster
C27_Witness ==
    \E sid \in sessions :
        /\ heap[sid].Phase = PhaseReading
        /\ heap[sid].CurrentTurn > Cardinality(DOMAIN heap[sid].Participants)

\* connection c speaks for a participant of a registered session who is not
\* its host
NonHost(c) ==
    /\ GetSessionByID(clients[c].sessionID) # NoSession
    /\ clients[c].userID # Sess(clients[c].sessionID).HostID

\* the steps the handlers reject as forbidden: start_writing and
\* remove_participant from a connection that is not the host's, and
\* remove_participant from the host's that names the host
ForbiddenRequest(c) ==
    /\ Served /\ Sends(c)
    /\ \/ NonHost(c) /\ hubStartWriting(c)
       \/ \E participantID \in Ids :
              /\ hubRemoveParticipant(c, participantID)
              /\ \/ NonHost(c)
                 \/ /\ GetSessionByID(clients[c].sessionID) # NoSession
                    /\ participantID = clients[c].userID

\* what a rejection leaves behind: one error at the end of the queue of c
\* (dropped, with the queue closed, when the queue is full), the queues of
\* the other connections, the sessions and the registry as they were, and c
\* open and in its group
RejectionEffect(c) ==
    /\ panicked' = NoPanic
    /\ send'[c] = IF Len(send[c].buf) < SendCap
                  THEN [send[c] EXCEPT !.buf = Append(@, "error")]
                  ELSE [send[c] EXCEPT !.closed = TRUE]
    /\ \A d \in ClientIds \ {c} : send'[d] = send[d]
    /\ heap' = heap /\ sessions' = sessions /\ sessionsByCode' = sessionsByCode
    /\ clients' = clients /\ clients'[c].conn = "open"
    /\ hubClients' = hubClients /\ (Member(c) => Member(c)')
    /\ unregPending' = unregPending /\ regPending' = regPending

\* C28: a start_writing or remove_participant from a participant who is not
\* the host, and a remove_participant of the host by the host, is answered
\* with an error to the sender's connection alone: nothing goes to the other
\* connections, the session keeps its phase, roster and host, and the
\* sender's connection stays open and in its group.
C28_ForbiddenIsRejected ==
    [][\A c \in ClientIds : ForbiddenRequest(c) => RejectionEffect(c)]_vars

\* a participant who is not the host has an error as the last payload of
\* its queue, in a group with another connection
C28_Witness ==
    \E c \in ClientIds :
        /\ panicked = NoPanic /\ NonHost(c) /\ Member(c)
        /\ clients[c].conn = "open" /\ ~send[c].closed
        /\ send[c].buf # <<>> /\ send[c].buf[Len(send[c].buf)] = "error"
        /\ Cardinality(Group(hubClients, clients[c].sessionID)) >= 2

\* the same, for the senders whose outbound queue SendMessage has not closed
ForbiddenIsRejectedUnlessClosed ==
    [][\A c \in ClientIds :
          ForbiddenRequest(c) /\ ~send[c].closed => RejectionEffect(c)]_vars

----------------------------------------------------------------------------
(* submit_notes with its answers: the handlers of SpecHub and               *)
(* handleSubmitNotes, on the hub goroutine.                                 *)

\* submit_notes: an error at the first note AddNote rejects; otherwise the
\* notes_submitted answer and, once the count of notes is the expected one
\* and TransitionToReading succeeds, the phase_changed broadcast.  A panic
\* in the answer ends the handler before the transition.
hubSubmitNotes(c, notes) ==
    LET sid == GetSessionByID(clients[c].sessionID)
        added == SubmitLoop(Sess(sid), clients[c].userID, notes)
        answered == SendMessage(Channels, c, "notes_submitted")
    IN  /\ UNCHANGED <<sessions, sessionsByCode, usedIds, clients, hubClients,
                       regPending, unregPending, callbacks>>
        /\ IF sid = NoSession
           THEN heap' = heap /\ Sent(SendMessage(Channels, c, "error"))
           ELSE IF added.err # Nil
           THEN /\ heap' = [heap EXCEPT ![sid] = added.s]
                /\ Sent(SendMessage(Channels, c, "error"))
           ELSE IF \/ answered.panicked # NoPanic
                   \/ Len(added.s.Notes) # ExpectedNotes(added.s)
                   \/ TransitionToReading(added.s).err # Nil
           THEN /\ heap' = [heap EXCEPT ![sid] = added.s]
                /\ Sent(answered)
           ELSE /\ heap' = [heap EXCEPT ![sid] = TransitionToReading(added.s).s]
                /\ \E order \in GroupOrders(hubClients, sid) :
                       Sent(BroadcastToSession(answered, order, "phase_changed"))

\* SpecNotes: peers that keep their streams open create and join sessions,
\* the host starts the writing phase and removes participants, and the
\* participants submit their notes; a connection goes only when its queue
\* has overflowed.
NextNotes ==
    \/ \E c \in ClientIds, code \in GeneratedCodes, hostID \in Ids :
           /\ Served /\ Sends(c) /\ Unbound(c) /\ InOrder(c)
           /\ Fresh(hostID) /\ code \notin DOMAIN sessionsByCode
           /\ hubCreateSession(c, code, hostID)
           /\ UNCHANGED besidesHub
    \/ \E c \in ClientIds, code \in HubTypedCodes, newID \in Ids :
           /\ Served /\ Sends(c) /\ Unbound(c) /\ InOrder(c)
           /\ Fresh(newID)
           /\ hubJoinSession(c, code, newID)
           /\ UNCHANGED besidesHub
    \/ \E c \in ClientIds :
           Served /\ Sends(c) /\ hubStartWriting(c) /\ UNCHANGED besidesHub
    \/ \E c \in ClientIds : \E notes \in Batches(c) :
           /\ Served /\ Sends(c)
           /\ hubSubmitNotes(c, notes)
           /\ UNCHANGED besidesHub
    \/ \E c \in ClientIds, participantID \in Ids :
           /\ Served /\ Sends(c)
           /\ hubRemoveParticipant(c, participantID)
           /\ UNCHANGED besidesHub
    \/ \E c \in ClientIds :
           Alive /\ Register(c) /\ UNCHANGED aux
    \/ \E c \in ClientIds :
           Alive /\ hubUnregister(c) /\ UNCHANGED besidesHub
    \/ \E c \in ClientIds :
           panicked = NoPanic /\ writePump(c) /\ UNCHANGED besidesHub

SpecNotes == Init /\ [][NextNotes]_vars

\* the hub handles submit_notes(notes) of connection c in this step, for a
\* session in WRITING
SubmitsInWriting(c, notes) ==
    /\ Served /\ Sends(c)
    /\ GetSessionByID(clients[c].sessionID) # NoSession
    /\ Sess(clients[c].sessionID).Phase = PhaseWriting
    /\ hubSubmitNotes(c, notes)

\* the step answers c with notes_submitted and sends phase_changed to the
\* group of session sid, whose current reader is a participant
ReadingAnnounced(c, sid) ==
    /\ panicked' = NoPanic
    /\ \E order \in GroupOrders(hubClients, sid) :
           send' = BroadcastToSession(
                       SendMessage(Channels, c, "notes_submitted"),
                       order, "phase_changed").send
    /\ \A order \in MapOrders(heap'[sid].Participants) :
           GetCurrentReader(heap'[sid], order) \in DOMAIN heap'[sid].Participants

\* what a submit_notes does to the phase of session sid in WRITING: with
\* N * (N - 1) notes after it the session is in READING and the group is
\* told; with fewer the session is still in WRITING
SubmitEffect(c, sid) ==
    IF Len(heap'[sid].Notes) = ExpectedNotes(heap'[sid])
    THEN heap'[sid].Phase = PhaseReading /\ ReadingAnnounced(c, sid)
    ELSE Len(heap'[sid].Notes) < ExpectedNotes(heap'[sid])
             => heap'[sid].Phase = PhaseWriting

\* C29: in WRITING, the submit_notes that brings the number of notes to
\* N * (N - 1) moves the session to READING in the same step and sends
\* phase_changed, naming the current reader, to the group of the session; a
\* submit_notes that leaves the number below N * (N - 1) leaves the phase
\* alone.
C29_LastNoteStartsReading ==
    [][\A c \in ClientIds : \A notes \in Batches(c) :
          SubmitsInWriting(c, notes) => SubmitEffect(c, clients[c].sessionID)]_vars

\* a session of three has come to READING with its six notes, and the last
\* payload queued for a connection of its group is phase_changed
C29_Witness ==
    \E sid \in sessions :
        /\ heap[sid].Phase = PhaseReading /\ panicked = NoPanic
        /\ NumParticipants(heap[sid]) = 3 /\ Len(heap[sid].Notes) = 6
        /\ \E c \in Group(hubClients, sid) :
               /\ send[c].buf # <<>>
               /\ send[c].buf[Len(send[c].buf)] = "phase_changed"

\* the same, for the submit_notes each of whose notes AddNote accepts, from
\* a connection whose queue has room for the answer, in a group none of
\* whose queues is closed
LastNoteStartsReadingUnlessRejected ==
    [][\A c \in ClientIds : \A notes \in Batches(c) :
          /\ SubmitsInWriting(c, notes)
          /\ SubmitLoop(Sess(clients[c].sessionID), clients[c].userID, notes).err = Nil
          /\ ~send[c].closed /\ Len(send[c].buf) < SendCap
          /\ \A d \in Group(hubClients, clients[c].sessionID) : ~send[d].closed
          => SubmitEffect(c, clients[c].sessionID)]_vars

\* the disconnect callback runs for c in this step, and the participant of
\* c is the only one on the roster of its session
LastParticipantLeaves(c) ==
    /\ Unregisters(c) /\ callbacks'[c] = callbacks[c] + 1
    /\ GetSessionByID(clients[c].sessionID) # NoSession
    /\ DOMAIN Sess(clients[c].sessionID).Participants = {clients[c].userID}

\* the session sessionID, created under code, is resolved neither by its id
\* nor by its code in any casing
Unresolved(sessionID, code) ==
    /\ GetSessionByID(sessionID) = NoSession
    /\ \A typed \in Casings(code) : GetSessionByCode(typed) = NoSession

\* C30: when the disconnect of a connection takes the last participant off
\* the roster of a session, the same step removes the session from the
\* registry, so that neither GetSessionByID nor GetSessionByCode resolves it
\* afterwards, and no participant_left is sent: no queue gets a payload.
C30_EmptySessionRemovedAtOnce ==
    [][\A c \in ClientIds :
          LastParticipantLeaves(c) =>
              /\ \A sessionID \in {clients[c].sessionID} :
                 \A code \in {heap[sessionID].Code} :
                     Unresolved(sessionID, code)'
              /\ \A d \in ClientIds : send'[d].buf = send[d].buf
              /\ panicked' = NoPanic]_vars

\* the callback of a connection has run and its session is gone, while a
\* connection that was removed from the roster before is still in the group
\* of that session
C30_Witness ==
    \E c \in ClientIds :
        /\ callbacks[c] = 1 /\ panicked = NoPanic
        /\ clients[c].sessionID # NoSession
        /\ clients[c].sessionID \notin sessions
        /\ \E d \in Group(hubClients, clients[c].sessionID) :
               clients[d].conn = "open"

----------------------------------------------------------------------------
(* The texts of inbound messages: internal/websocket/validation.go and the *)
(* fields handleCreateSession, handleJoinSession and handleSubmitNotes     *)
(* read.  A string is modelled by its shape: `lead` spaces, a body of      *)
(* `body` bytes that begins and ends with a non-space, `trail` spaces.     *)
(***************************************************************************)

maxUserNameLength == 100
maxNoteLength == 2000

\* a text takes up to MaxPad spaces on either side
MaxPad == 1
\* the Sessions keep up to MaxNames names and MaxContents contents
MaxNames == 2
MaxContents == 2

Text(lead, body, trail) == [lead |-> lead, body |-> body, trail |-> trail]
\* the string ""
EmptyText == Text(0, 0, 0)
\* a field that is missing from msg.Data, or is not a string
NoField == Text(-1, 0, 0)
\* the default name "Host"
HostName == Text(0, 4, 0)

\* len(s), in bytes
TextLen(t) == t.lead + t.body + t.trail
\* strings.TrimSpace
TrimSpaceText(t) == Text(0, t.body, 0)

\* the texts a peer sends where the limit is `limit`: nothing but spaces,
\* one byte, as many bytes as the limit allows and one more, padded or not
Texts(limit) ==
    {Text(lead, body, 0) : lead \in 0..MaxPad, body \in {0}} \cup
    {Text(lead, body, trail) :
        lead \in 0..MaxPad, body \in {1, limit, limit + 1}, trail \in 0..MaxPad}

validateUserName(name) ==
    LET trimmed == TrimSpaceText(name)
    IN  IF trimmed = EmptyText
        THEN [text |-> EmptyText, err |-> "user name cannot be empty"]
        ELSE IF TextLen(trimmed) > maxUserNameLength
        THEN [text |-> EmptyText, err |-> "user name too long (max 100 characters)"]
        ELSE [text |-> trimmed, err |-> Nil]

validateNoteContent(content) ==
    LET trimmed == TrimSpaceText(content)
    IN  IF trimmed = EmptyText
        THEN [text |-> EmptyText, err |-> "note content cannot be empty"]
        ELSE IF TextLen(trimmed) > maxNoteLength
        THEN [text |-> EmptyText, err |-> "note content too long (max 2000 characters)"]
        ELSE [text |-> trimmed, err |-> Nil]

\* create_session with msg.Data["userName"] = userName: the name NewSession
\* is called with
inputCreateSession(userName) ==
    /\ Len(names) < MaxNames
    /\ names' = Append(names, IF userName \in {NoField, EmptyText}
                              THEN HostName ELSE userName)
    /\ UNCHANGED contents

\* join_session with msg.Data["userName"] = userName, for a code that names
\* a session in JOINING: an error, or the name AddParticipant is called with
inputJoinSession(userName) ==
    /\ Len(names) < MaxNames
    /\ names' = IF userName \in {NoField, EmptyText}
                THEN names ELSE Append(names, userName)
    /\ UNCHANGED contents

\* one note of a submit_notes with "content" = content, for a pair AddNote
\* accepts: the note is skipped, or AddNote is called with the content
inputSubmitNote(content) ==
    /\ Len(contents) < MaxContents
    /\ contents' = IF content \in {NoField, EmptyText}
                   THEN contents ELSE Append(contents, content)
    /\ UNCHANGED names

\* SpecInput: peers send names and note contents of every shape
NextInput ==
    \/ \E userName \in Texts(maxUserNameLength) \cup {NoField} :
           inputCreateSession(userName) /\ UNCHANGED <<core, sweepVars, hubVars, lockVars>>
    \/ \E userName \in Texts(maxUserNameLength) \cup {NoField} :
           inputJoinSession(userName) /\ UNCHANGED <<core, sweepVars, hubVars, lockVars>>
    \/ \E content \in Texts(maxNoteLength) \cup {NoField} :
           inputSubmitNote(content) /\ UNCHANGED <<core, sweepVars, hubVars, lockVars>>

SpecInput == Init /\ [][NextInput]_vars

\* C31: every display name on a roster is what validateUserName returns for
\* it (trimmed, 1 to 100 bytes) and every note content is what
\* validateNoteContent returns for it (trimmed, 1 to 2000 bytes): a name or
\* a content that is empty after trimming or over the limit reaches no
\* Session.
C31_StoredTextIsValidated ==
    /\ \A i \in DOMAIN names :
           validateUserName(names[i]) = [text |-> names[i], err |-> Nil]
    /\ \A i \in DOMAIN contents :
           validateNoteContent(contents[i]) = [text |-> contents[i], err |-> Nil]

\* a name and a content have reached a Session
C31_Witness == names # <<>> /\ contents # <<>>

\* what the handlers do check: no empty string reaches a Session
EmptyTextNeverStored ==
    /\ \A i \in DOMAIN names : TextLen(names[i]) > 0
    /\ \A i \in DOMAIN contents : TextLen(contents[i]) > 0

\* every note of s has its read flag set
AllRead(s) == \A i \in DOMAIN s.Notes : s.Notes[i].Read

\* AdvanceTurn on s, called as handleDrawNote calls it or after
\* MarkNoteAsRead as handleNoteRead calls it, completes s only with every
\* note read
CompletesOnlyAllRead(s) ==
    \A order \in MapOrders(s.Participants) :
        /\ AdvanceTurn(s, order).Phase = PhaseComplete
               => AllRead(AdvanceTurn(s, order))
        /\ \A noteID \in DOMAIN s.Notes :
               LET after == AdvanceTurn(MarkNoteAsRead(s, noteID).s, order)
               IN  after.Phase = PhaseComplete => AllRead(after)

\* C32: a session with at least two participants enters COMPLETE only with
\* the read flag of every note set: AdvanceTurn never completes such a
\* session while a note is unread, whatever the roster was before.
C32_CompleteOnlyWhenAllRead ==
    /\ [](\A sid \in sessions :
              heap[sid].Phase = PhaseReading /\ NumParticipants(heap[sid]) >= 2
                  => CompletesOnlyAllRead(heap[sid]))
    /\ [][\A sid \in sessions \cap sessions' :
              /\ heap[sid].Phase = PhaseReading
              /\ heap'[sid].Phase = PhaseComplete
              /\ NumParticipants(heap[sid]) >= 2
              => AllRead(heap'[sid])]_vars

\* a session of three has come to COMPLETE with its six notes
C32_Witness ==
    \E sid \in sessions :
        /\ heap[sid].Phase = PhaseComplete
        /\ NumParticipants(heap[sid]) = 3
        /\ Len(heap[sid].Notes) = 6

----------------------------------------------------------------------------
(* The register request against the inbound messages.  handleCreateSession *)
(* and handleJoinSession send `hub.register <- client` from a goroutine of *)
(* their own; the select of Hub.Run takes whichever of register,           *)
(* unregister and process is ready, so an inbound message of another       *)
(* connection may be handled while a registration is still in flight.      *)
(***************************************************************************)

\* SpecRace: connections create and join sessions and the host starts the
\* writing phase, streams close, and the hub takes the next event from any
\* of its three channels.
NextRace ==
    \/ \E c \in ClientIds, code \in GeneratedCodes, hostID \in Ids :
           /\ Alive /\ Sends(c) /\ Unbound(c) /\ InOrder(c)
           /\ Fresh(hostID) /\ code \notin DOMAIN sessionsByCode
           /\ hubCreateSession(c, code, hostID)
           /\ UNCHANGED besidesHub
    \/ \E c \in ClientIds, code \in HubTypedCodes, newID \in Ids :
           /\ Alive /\ Sends(c) /\ Unbound(c) /\ InOrder(c)
           /\ Fresh(newID)
           /\ hubJoinSession(c, code, newID)
           /\ UNCHANGED besidesHub
    \/ \E c \in ClientIds :
           Alive /\ Sends(c) /\ hubStartWriting(c) /\ UNCHANGED besidesHub
    \/ \E c \in ClientIds :
           Alive /\ Register(c) /\ UNCHANGED aux
    \/ \E c \in ClientIds :
           Alive /\ hubUnregister(c) /\ UNCHANGED besidesHub
    \/ \E c \in ClientIds :
           Alive /\ InOrder(c) /\ readLoopEnds(c) /\ UNCHANGED besidesHub
    \/ \E c \in ClientIds :
           panicked = NoPanic /\ writePump(c) /\ UNCHANGED besidesHub

SpecRace == Init /\ [][NextRace]_vars

\* connection c has been sent session_created or session_joined for session
\* sessionID, is connected, and its queue is open
Admitted(c, sessionID) ==
    /\ clients[c].sessionID = sessionID
    /\ clients[c].conn = "open"
    /\ ~send[c].closed

\* this step is a broadcast of msgType to session sessionID that does not
\* panic: a join_session that succeeds for connection d (participant_joined,
\* to all but d), or the host's start_writing (phase_changed, to all)
Broadcasts(d, sessionID, msgType) ==
    /\ panicked' = NoPanic
    /\ \/ /\ msgType = "participant_joined"
          /\ \E code \in HubTypedCodes, newID \in Ids :
                 Fresh(newID) /\ Unbound(d) /\ hubJoinSession(d, code, newID)
          /\ clients'[d].sessionID = sessionID
       \/ /\ msgType = "phase_changed"
          /\ clients[d].sessionID = sessionID
          /\ hubStartWriting(d) /\ heap' # heap

\* C33: once a connection has been sent session_created or session_joined,
\* every later broadcast to its session (here participant_joined and
\* phase_changed) is sent to it while it stays connected, whether or not the
\* hub has taken its register request yet.
C33_AdmittedReceivesBroadcasts ==
    [][\A d \in ClientIds, sessionID \in SessionIds :
       \A msgType \in {"participant_joined", "phase_changed"} :
          Alive /\ Sends(d) /\ Broadcasts(d, sessionID, msgType) =>
              \A c \in ClientIds :
                  Admitted(c, sessionID) =>
                      send'[c] = SendMessage(Channels, c, msgType).send[c]]_vars

\* a connection that was admitted before a broadcast has the broadcast in
\* its queue behind its admission
C33_Witness ==
    \E c \in ClientIds :
        /\ panicked = NoPanic /\ clients[c].conn = "open"
        /\ send[c].buf \in {<<"session_joined", "participant_joined">>,
                            <<"session_joined", "phase_changed">>}

\* the same, for the connections whose register request the hub has taken
RegisteredReceivesBroadcasts ==
    [][\A d \in ClientIds, sessionID \in SessionIds :
       \A msgType \in {"participant_joined", "phase_changed"} :
          Alive /\ Sends(d) /\ Broadcasts(d, sessionID, msgType) =>
              \A c \in Group(hubClients, sessionID) :
                  Admitted(c, sessionID) =>
                      send'[c] = SendMessage(Channels, c, msgType).send[c]]_vars

----------------------------------------------------------------------------
(* Fairness for the Hub with clientsMu: the hub goroutine, once inside a   *)
(* case of its select, takes its next step when that step can be taken,    *)
(* and a write loop with something to do eventually runs.                  *)
(***************************************************************************)
LockFairness ==
    /\ WF_vars(Alive /\ broadcastRLock /\ UNCHANGED inputVars)
    /\ WF_vars(Alive /\ broadcastCopy /\ UNCHANGED inputVars)
    /\ WF_vars(Alive /\ broadcastSend /\ UNCHANGED inputVars)
    /\ WF_vars(Alive /\ unregisterCallback /\ UNCHANGED inputVars)
    /\ WF_vars(Alive /\ unregisterUnlock /\ UNCHANGED inputVars)
    /\ \A c \in ClientIds :
           WF_vars(panicked = NoPanic /\ writePump(c) /\ UNCHANGED besidesHub)

SpecLockFair == SpecLock /\ LockFairness

\* the hub goroutine is inside a case of its select
Handling == hubPc # Idle

\* the hub goroutine is in the participant_left broadcast of the disconnect
\* callback
InCallbackBroadcast == hubPc.op = "rlock" /\ hubPc.c # 0

\* C34: the hub's loop does not block for ever: once it has begun to handle
\* a register, an unregister with its disconnect callback, or an inbound
\* message, it comes back to its select (unless the process has ended).
C34_HubReturnsToSelect ==
    Handling ~> (~Handling \/ panicked # NoPanic)

\* the hub is inside the unregister case of a connection whose session keeps
\* another participant
C34_Witness ==
    /\ hubPc.op = "callback" /\ panicked = NoPanic
    /\ disconnectBroadcasts(hubPc.c)

\* the same, but for the disconnect callback's broadcast: every other case
\* comes back to the select
HubReturnsUnlessCallbackBroadcasts ==
    Handling ~> (~Handling \/ panicked # NoPanic \/ InCallbackBroadcast)

----------------------------------------------------------------------------
(* Fairness for SpecNotes: the hub takes the requests in flight, the write *)
(* loops run, and every connected participant sends submit_notes again and *)
(* again (an empty list at least); a message waits in h.process until the  *)
(* hub is ready for it.                                                    *)
(***************************************************************************)
NotesFairness ==
    \A c \in ClientIds :
        /\ WF_vars(Alive /\ Register(c) /\ UNCHANGED aux)
        /\ WF_vars(Alive /\ hubUnregister(c) /\ UNCHANGED besidesHub)
        /\ WF_vars(panicked = NoPanic /\ writePump(c) /\ UNCHANGED besidesHub)
        /\ SF_vars(/\ Served /\ Sends(c)
                   /\ hubSubmitNotes(c, <<>>)
                   /\ UNCHANGED besidesHub)

SpecNotesFair == SpecNotes /\ NotesFairness

\* every participant of s has a note to every other participant of s
PairsWritten(s) ==
    \A a, b \in DOMAIN s.Participants :
        a # b => \E i \in DOMAIN s.Notes :
                     s.Notes[i].AuthorID = a /\ s.Notes[i].RecipientID = b

\* session sessionID is in WRITING with at least two participants, each of
\* whom has written to every other
WritingDone(sessionID) ==
    /\ sessionID \in sessions
    /\ heap[sessionID].Phase = PhaseWriting
    /\ NumParticipants(heap[sessionID]) >= 2
    /\ PairsWritten(heap[sessionID])

\* C35: a session in WRITING whose remaining participants have each written
\* to every other remaining participant comes to READING, also after a
\* participant was removed during WRITING: it does not stay in WRITING for
\* ever (unless it is removed or left with fewer than two participants).
C35_WritingEndsAfterRemoval ==
    \A sessionID \in SessionIds :
        WritingDone(sessionID) ~>
            \/ sessionID \notin sessions
            \/ heap[sessionID].Phase # PhaseWriting
            \/ NumParticipants(heap[sessionID]) < 2
            \/ panicked # NoPanic

\* a session in WRITING has lost a participant who had written or been
\* written to, and the two who remain have written to each other
C35_Witness ==
    \E sessionID \in SessionIds :
        /\ WritingDone(sessionID) /\ panicked = NoPanic
        /\ \E i \in DOMAIN heap[sessionID].Notes :
               \/ heap[sessionID].Notes[i].AuthorID
                      \notin DOMAIN heap[sessionID].Participants
               \/ heap[sessionID].Notes[i].RecipientID
                      \notin DOMAIN heap[sessionID].Participants

\* every note of s is from a participant of s to a participant of s
NoStrayNotes(s) ==
    \A i \in DOMAIN s.Notes :
        /\ s.Notes[i].AuthorID \in DOMAIN s.Participants
        /\ s.Notes[i].RecipientID \in DOMAIN s.Participants

\* the same, for the sessions that hold no note of or to a participant who
\* left
WritingEndsWithoutStrayNotes ==
    \A sessionID \in SessionIds :
        (WritingDone(sessionID) /\ NoStrayNotes(heap[sessionID])) ~>
            \/ sessionID \notin sessions
            \/ heap[sessionID].Phase # PhaseWriting
            \/ NumParticipants(heap[sessionID]) < 2
            \/ ~NoStrayNotes(heap[sessionID])
            \/ panicked # NoPanic

----------------------------------------------------------------------------
(* The hub's groups against the rosters: handleRemoveParticipant           *)
(* (part_004:596-652) and Hub.BroadcastToSession (hub.go:89-98).           *)
(***************************************************************************)

\* the participant of connection c is on the roster of session sessionID
RosterMember(c, sessionID) ==
    /\ GetSessionByID(sessionID) # NoSession
    /\ clients[c].sessionID = sessionID
    /\ clients[c].userID \in DOMAIN Sess(sessionID).Participants

\* C36: after every handling step, every connection in the hub's group of
\* a session belongs to a participant on the roster of that session; a
\* participant removed by the host is therefore out of the group when the
\* participant_left broadcast, and every later one, goes out.
C36_GroupMembersAreOnRoster ==
    \A sessionID \in SessionIds :
        \A c \in Group(hubClients, sessionID) : RosterMember(c, sessionID)

\* the host has removed the participant of c: c is still in the group of
\* the session, and its queue holds the kicked notice followed by the
\* participant_left broadcast about itself
C36_Witness ==
    \E c \in ClientIds :
        /\ panicked = NoPanic
        /\ Member(c) /\ clients[c].conn = "open"
        /\ GetSessionByID(clients[c].sessionID) # NoSession
        /\ clients[c].userID \notin DOMAIN Sess(clients[c].sessionID).Participants
        /\ send[c].buf = <<"kicked", "participant_left">>

----------------------------------------------------------------------------
(* A connection that sends create_session or join_session again:           *)
(* handleCreateSession (part_004:209-252) and handleJoinSession            *)
(* (part_004:255-318) do not look at the sessionID the connection has.     *)
(***************************************************************************)

\* SpecRebind: connections create and join sessions, as often as they
\* like; streams close; the hub takes the registrations and
\* unregistrations in flight before the next inbound message.
NextRebind ==
    \/ \E c \in ClientIds, code \in GeneratedCodes, hostID \in Ids :
           /\ Served /\ Sends(c) /\ InOrder(c)
           /\ Fresh(hostID) /\ code \notin DOMAIN sessionsByCode
           /\ hubCreateSession(c, code, hostID)
           /\ UNCHANGED besidesHub
    \/ \E c \in ClientIds, code \in HubTypedCodes, newID \in Ids :
           /\ Served /\ Sends(c) /\ InOrder(c)
           /\ Fresh(newID)
           /\ hubJoinSession(c, code, newID)
           /\ UNCHANGED besidesHub
    \/ \E c \in ClientIds :
           Alive /\ Register(c) /\ UNCHANGED aux
    \/ \E c \in ClientIds :
           Alive /\ hubUnregister(c) /\ UNCHANGED besidesHub
    \/ \E c \in ClientIds :
           Alive /\ InOrder(c) /\ readLoopEnds(c) /\ UNCHANGED besidesHub
    \/ \E c \in ClientIds :
           panicked = NoPanic /\ writePump(c) /\ UNCHANGED besidesHub

SpecRebind == Init /\ [][NextRebind]_vars

\* a handler gives connection c a participant in this step
Binds(c) ==
    /\ clients'[c].userID # NoParticipant
    /\ <<clients'[c].sessionID, clients'[c].userID>> #
           <<clients[c].sessionID, clients[c].userID>>

\* C37: a connection is in no group of the hub other than the group of its
\* current session id, and it owns at most one participant over all
\* sessions: when a create_session or join_session gives it a participant,
\* the participant it had, if any, is on no roster.
C37_OneGroupOneParticipant ==
    /\ [](\A c \in ClientIds : \A sessionID \in SessionIds :
              c \in Group(hubClients, sessionID) =>
                  clients[c].sessionID = sessionID)
    /\ [][\A c \in ClientIds : Binds(c) => ~OnRoster(c)]_vars

\* a connection is the host of the session it has just created and its
\* registration for it has been taken, while it is still in the group of
\* the session it was in before, with its earlier participant on the roster
C37_Witness ==
    \E c \in ClientIds : \E sessionID \in SessionIds :
        /\ panicked = NoPanic
        /\ sessionID # clients[c].sessionID
        /\ c \in Group(hubClients, sessionID)
        /\ c \in Group(hubClients, clients[c].sessionID)
        /\ OnRoster(c)
        /\ GetSessionByID(sessionID) # NoSession
        /\ NumParticipants(Sess(sessionID)) + NumParticipants(Sess(clients[c].sessionID))
               > Cardinality({d \in ClientIds : clients[d].userID # NoParticipant})

----------------------------------------------------------------------------
(* The loop of handleSubmitNotes over a list one of whose notes AddNote    *)
(* rejects (part_004:374-396, session.go:100-140).                         *)
(***************************************************************************)

\* AddNote rejects one of the notes connection c submits
BatchRejected(c, notes) ==
    /\ GetSessionByID(clients[c].sessionID) # NoSession
    /\ SubmitLoop(Sess(clients[c].sessionID), clients[c].userID, notes).err # Nil

\* C38: submit_notes is all-or-nothing: when AddNote rejects one of the
\* notes of the list, the session holds the same notes after the handler
\* as before it.
C38_SubmitNotesAllOrNothing ==
    [][\A c \in ClientIds : \A notes \in Batches(c) :
          (/\ Served /\ Sends(c)
           /\ hubSubmitNotes(c, notes)
           /\ BatchRejected(c, notes))
          => \A sessionID \in {clients[c].sessionID} :
                 heap'[sessionID].Notes = heap[sessionID].Notes]_vars

\* A session of two that nobody has left (every other id handed out is on
\* the roster of another session) holds its two notes and is still in
\* WRITING: the count was completed by a list whose last valid note was
\* followed by a rejected one, and the sender was answered with an error.
C38_Witness ==
    \E sessionID \in sessions :
        /\ panicked = NoPanic
        /\ heap[sessionID].Phase = PhaseWriting
        /\ NumParticipants(heap[sessionID]) = 2
        /\ Len(heap[sessionID].Notes) = 2
        /\ usedIds # DOMAIN heap[sessionID].Participants
        /\ \A id \in usedIds \ DOMAIN heap[sessionID].Participants :
               \E other \in sessions \ {sessionID} :
                   id \in DOMAIN heap[other].Participants
        /\ \E c \in Group(hubClients, sessionID) :
               /\ send[c].buf # <<>>
               /\ send[c].buf[Len(send[c].buf)] = "error"

\* the same, for the lists whose first note is the one AddNote rejects
RejectedAtFirstNoteKeepsNotes ==
    [][\A c \in ClientIds : \A notes \in Batches(c) :
          (/\ Served /\ Sends(c)
           /\ hubSubmitNotes(c, notes)
           /\ BatchRejected(c, notes)
           /\ BatchRejected(c, SubSeq(notes, 1, 1)))
          => \A sessionID \in {clients[c].sessionID} :
                 heap'[sessionID].Notes = heap[sessionID].Notes]_vars

----------------------------------------------------------------------------
(* The current reader across a removal: GetCurrentReader                   *)
(* (session.go:247-263) indexes the sorted roster with CurrentTurn modulo  *)
(* its length, and RemoveParticipant (session.go:316-327) shortens it.     *)
(***************************************************************************)

\* the participant GetCurrentReader returns for s
CurrentReader(s) == GetCurrentReader(s, RosterOrder(s))

\* participant id, who is not the current reader, leaves the roster of
\* session sessionID in this step, by remove_participant or by disconnect
NonReaderLeaves(sessionID, id) ==
    /\ heap[sessionID].Phase = PhaseReading
    /\ id \in DOMAIN heap[sessionID].Participants
    /\ id # CurrentReader(heap[sessionID])
    /\ sessionID \in sessions'
    /\ DOMAIN heap'[sessionID].Participants =
           DOMAIN heap[sessionID].Participants \ {id}

\* C39: in READING, a step that takes a participant other than the current
\* reader off the roster leaves the current reader who it was.
C39_RemovalKeepsCurrentReader ==
    [][\A sessionID \in sessions : \A id \in Ids :
          NonReaderLeaves(sessionID, id) =>
              CurrentReader(heap'[sessionID]) = CurrentReader(heap[sessionID])]_vars

\* A session that came to READING with three participants and six notes
\* has two participants left and its turn counter is still 0; the one who
\* left is not the least of the three ids, so it was not the reader.
C39_Witness ==
    \E sessionID \in sessions :
        /\ heap[sessionID].Phase = PhaseReading
        /\ Len(heap[sessionID].Notes) = 6
        /\ NumParticipants(heap[sessionID]) = 2
        /\ heap[sessionID].CurrentTurn = 0
        /\ 1 \in DOMAIN heap[sessionID].Participants
        /\ CurrentReader(heap[sessionID]) = 1

----------------------------------------------------------------------------
(* The reading phase with its answers: handleDrawNote (part_004:432-521)   *)
(* and handleNoteRead (part_004:524-593), on the hub goroutine.            *)
(***************************************************************************)

\* GetCurrentReader does not return the participant of connection c
NotYourTurn(c) ==
    \A reader \in {GetCurrentReader(Sess(clients[c].sessionID),
                                    RosterOrder(Sess(clients[c].sessionID)))} :
        reader = NoParticipant \/ reader # clients[c].userID

\* draw_note: an error; or, when the reader has nothing to draw, the turn
\* advances and session_complete or turn_changed goes to the group; or
\* note_drawn goes to the group.  GetCurrentReader and AdvanceTurn sort the
\* roster, so the order of the map iteration does not show.
hubDrawNote(c) ==
    LET sid == GetSessionByID(clients[c].sessionID)
    IN  /\ UNCHANGED <<sessions, sessionsByCode, usedIds, clients, hubClients,
                       regPending, unregPending, callbacks>>
        /\ IF sid = NoSession \/ NotYourTurn(c)
           THEN heap' = heap /\ Sent(SendMessage(Channels, c, "error"))
           ELSE IF Len(GetAvailableNotesForReader(Sess(sid), clients[c].userID)) = 0
           THEN /\ Sess(sid).CurrentTurn < MaxTurn
                /\ heap' = [heap EXCEPT ![sid] =
                               AdvanceTurn(Sess(sid), RosterOrder(Sess(sid)))]
                /\ \E order \in GroupOrders(hubClients, sid) :
                       Sent(BroadcastToSession(Channels, order,
                                IF heap'[sid].Phase = PhaseComplete
                                THEN "session_complete"
                                ELSE "turn_changed"))
           ELSE /\ heap' = heap
                /\ \E order \in GroupOrders(hubClients, sid) :
                       Sent(BroadcastToSession(Channels, order, "note_drawn"))

\* note_read naming note noteID (0: an id no note has): an error; or the
\* note is marked, the turn advances and session_complete or turn_changed
\* goes to the group
hubNoteRead(c, noteID) ==
    LET sid == GetSessionByID(clients[c].sessionID)
    IN  /\ UNCHANGED <<sessions, sessionsByCode, usedIds, clients, hubClients,
                       regPending, unregPending, callbacks>>
        /\ IF sid = NoSession \/ NotYourTurn(c)
           THEN heap' = heap /\ Sent(SendMessage(Channels, c, "error"))
           ELSE /\ Sess(sid).CurrentTurn < MaxTurn
                /\ noteID <= Len(Sess(sid).Notes)
                /\ heap' = [heap EXCEPT ![sid] =
                               AdvanceTurn(MarkNoteAsRead(Sess(sid), noteID).s,
                                           RosterOrder(Sess(sid)))]
                /\ \E order \in GroupOrders(hubClients, sid) :
                       Sent(BroadcastToSession(Channels, order,
                                IF heap'[sid].Phase = PhaseComplete
                                THEN "session_complete"
                                ELSE "turn_changed"))

\* The note ids a note_read of connection c names in SpecRead: none, or the
\* first note of its session that has not been read.
NamedNotes(c) ==
    {0} \cup
    {i \in 1..(MaxId * (MaxId - 1)) :
        /\ clients[c].sessionID \in sessions
        /\ i \in DOMAIN Sess(clients[c].sessionID).Notes
        /\ ~Sess(clients[c].sessionID).Notes[i].Read
        /\ \A j \in 1..(i - 1) : Sess(clients[c].sessionID).Notes[j].Read}

\* SpecRead: peers that keep their streams open create and join sessions,
\* the host starts the writing phase, the participants submit their notes
\* and take their turns at reading; a connection goes only when its queue
\* has overflowed.
NextRead ==
    \/ \E c \in ClientIds, code \in GeneratedCodes, hostID \in Ids :
           /\ Served /\ Sends(c) /\ Unbound(c) /\ InOrder(c)
           /\ Fresh(hostID) /\ code \notin DOMAIN sessionsByCode
           /\ hubCreateSession(c, code, hostID)
           /\ UNCHANGED besidesHub
    \/ \E c \in ClientIds, code \in HubTypedCodes, newID \in Ids :
           /\ Served /\ Sends(c) /\ Unbound(c) /\ InOrder(c)
           /\ Fresh(newID)
           /\ hubJoinSession(c, code, newID)
           /\ UNCHANGED besidesHub
    \/ \E c \in ClientIds :
           Served /\ Sends(c) /\ hubStartWriting(c) /\ UNCHANGED besidesHub
    \/ \E c \in ClientIds : \E notes \in Batches(c) :
           /\ Served /\ Sends(c)
           /\ hubSubmitNotes(c, notes)
           /\ UNCHANGED besidesHub
    \/ \E c \in ClientIds :
           Served /\ Sends(c) /\ hubDrawNote(c) /\ UNCHANGED besidesHub
    \/ \E c \in ClientIds : \E noteID \in NamedNotes(c) :
           Served /\ Sends(c) /\ hubNoteRead(c, noteID) /\ UNCHANGED besidesHub
    \/ \E c \in ClientIds :
           Alive /\ Register(c) /\ UNCHANGED aux
    \/ \E c \in ClientIds :
           Alive /\ hubUnregister(c) /\ UNCHANGED besidesHub
    \/ \E c \in ClientIds :
           panicked = NoPanic /\ writePump(c) /\ UNCHANGED besidesHub

SpecRead == Init /\ [][NextRead]_vars

\* the participant s.CurrentTurn points at in the roster of s sorted by id,
\* for a session in READING
IsCurrentReader(s, id) ==
    /\ s.Phase = PhaseReading
    /\ NumParticipants(s) > 0
    /\ id = Ascending(DOMAIN s.Participants)[(s.CurrentTurn % NumParticipants(s)) + 1]

\* the hub handles a draw_note or a note_read of connection c in this step;
\* c has a session, and its participant is not the current reader or the
\* session is not in READING
OutOfTurn(c) ==
    /\ Served /\ Sends(c)
    /\ GetSessionByID(clients[c].sessionID) # NoSession
    /\ ~IsCurrentReader(Sess(clients[c].sessionID), clients[c].userID)
    /\ \/ hubDrawNote(c)
       \/ \E noteID \in NamedNotes(c) : hubNoteRead(c, noteID)

\* C40: a draw_note or note_read from a connection whose participant is not
\* the current reader, or while the session is not in READING, produces an
\* error to that connection and nothing else: every read flag, the turn
\* counter and the phase are as before, and no other connection is sent
\* anything.
C40_OnlyReaderDrivesReading ==
    [][\A c \in ClientIds : OutOfTurn(c) => RejectionEffect(c)]_vars

\* in a session in READING one of whose notes has been read, a participant
\* who is not the current reader has an error as the last payload of its
\* queue
C40_Witness ==
    \E c \in ClientIds :
        /\ panicked = NoPanic /\ Member(c)
        /\ GetSessionByID(clients[c].sessionID) # NoSession
        /\ Sess(clients[c].sessionID).Phase = PhaseReading
        /\ \E i \in DOMAIN Sess(clients[c].sessionID).Notes :
               Sess(clients[c].sessionID).Notes[i].Read
        /\ ~IsCurrentReader(Sess(clients[c].sessionID), clients[c].userID)
        /\ clients[c].conn = "open" /\ ~send[c].closed
        /\ send[c].buf # <<>> /\ send[c].buf[Len(send[c].buf)] = "error"

\* the same, for the senders whose outbound queue SendMessage has not closed
OnlyReaderDrivesReadingUnlessClosed ==
    [][\A c \in ClientIds :
          OutOfTurn(c) /\ ~send[c].closed => RejectionEffect(c)]_vars

====
